---------------------------- MODULE Spec2Model ----------------------------
(***************************************************************************)
(* Stackfluence: the click attribution core.                               *)
(*                                                                         *)
(*   app/core/click_id.py              signed click identifiers            *)
(*   app/api/events.py                 event ingestion endpoints           *)
(*   app/core/bot_detection.py         bot risk scoring                    *)
(*   app/core/referrer_intelligence.py traffic source classification       *)
(*                                                                         *)
(* Python strings are sequences of one-character strings, so that split,   *)
(* int(), str(), lower(), lstrip() and substring search are computed the   *)
(* way the interpreter computes them.  time.time() is a float: the clock   *)
(* counts ticks of 1/TicksPerSec second, and int(time.time()) truncates.   *)
(***************************************************************************)
EXTENDS Integers, Sequences, FiniteSets, TLC

VARIABLES
    clock,      \* time.time(), in ticks
    minted,     \* the ClickIds returned by mint_click_id so far, in order
    last,       \* the last call of verify_click_id: its argument, time and outcome
    memory,     \* rate_limit._memory_store: key -> list of timestamps
    events,     \* the rows persisted by the ingestion endpoints, in order
    response,   \* the last ingestion call and its HTTP response
    sreq,       \* the arguments of the last score_request call
    verdict,    \* the BotVerdict it returned
    creq,       \* the arguments of the last analyze_click call
    intel,      \* the ClickIntelligence it returned
    preq,       \* the arguments of the last resolve_destination call
    pres,       \* the (final_url, tracking_params) it returned
    dedupe,     \* rate_limit._dedupe_store: key -> time last seen
    pc          \* the requests in flight: where each handler stands

vars == <<clock, minted, last, memory, events, response, sreq, verdict, creq, intel,
          preq, pres, dedupe, pc>>

codecVars  == <<clock, minted, last>>
eventVars  == <<memory, events, response>>
scoreVars  == <<sreq, verdict>>
classVars  == <<creq, intel>>
paramVars  == <<preq, pres>>
flowVars   == <<dedupe, pc>>

-----------------------------------------------------------------------------
(* Bounds of the model *)

TicksPerSec == 2        \* clock resolution: ticks per second
StartSec    == 8        \* the clock's first second (expiries then have 1 and 2 digits)
HorizonSec  == 2        \* the clock runs over this many seconds
MaxMinted   == 1        \* mint_click_id calls per behaviour
ExpirySecs  == 1        \* Settings.click_id_expiry_seconds of the checked configuration
ApiKeyLimit == 2        \* rate_limit_api_key's limit, scaled to the horizon
WindowSecs  == 1        \* the sliding window in seconds, scaled to the horizon
MaxEvents   == 1        \* rows the ingestion endpoints persist per behaviour
MaxUAParts  == 2        \* products in a User-Agent string

StartClock == StartSec * TicksPerSec
MaxClock   == (StartSec + HorizonSec) * TicksPerSec

-----------------------------------------------------------------------------
(* Characters and strings *)

Digits   == <<"0", "1", "2", "3", "4", "5", "6", "7", "8", "9">>
HexChars == Digits \o <<"a", "b", "c", "d", "e", "f">>
Uppers   == <<"A", "B", "C", "D", "E", "F", "G", "H", "I", "J", "K", "L", "M",
              "N", "O", "P", "Q", "R", "S", "T", "U", "V", "W", "X", "Y", "Z">>
Lowers   == <<"a", "b", "c", "d", "e", "f", "g", "h", "i", "j", "k", "l", "m",
              "n", "o", "p", "q", "r", "s", "t", "u", "v", "w", "x", "y", "z">>
Puncts   == <<":", "+", "-", " ", "_", "/", ".", "?", "&", "=", "@", "[", "(",
              ")", ";", ",", "~", "!", "#", "%">>
\* the one non-ASCII character of the model
NonAscii == "U+00E9"

AsciiChars == Digits \o Lowers \o Uppers \o Puncts

Range(s) == {s[i] : i \in 1..Len(s)}

DigitSet == Range(Digits)
AsciiSet == Range(AsciiChars)
UpperSet == Range(Uppers)

IsDigit(c) == c \in DigitSet
IsAscii(c) == c \in AsciiSet

DigitValOf == [c \in DigitSet |-> CHOOSE d \in 0..9 : Digits[d + 1] = c]
DigitVal(c) == DigitValOf[c]

\* ord(c), as far as the model needs it: a distinct number per character
OrdOf == [c \in AsciiSet |-> CHOOSE i \in 1..Len(AsciiChars) : AsciiChars[i] = c]
Ord(c) == IF IsAscii(c) THEN OrdOf[c] ELSE Len(AsciiChars) + 1

\* str.lower() on one character
LowerOf == [c \in UpperSet |-> Lowers[CHOOSE i \in 1..26 : Uppers[i] = c]]
LowerChar(c) == IF c \in UpperSet THEN LowerOf[c] ELSE c

\* str.lower()
Lower(s) == [i \in 1..Len(s) |-> LowerChar(s[i])]

\* str(n) of a natural number
RECURSIVE FormatNat(_)
FormatNat(n) ==
    IF n < 10 THEN <<Digits[n + 1]>>
    ELSE FormatNat(n \div 10) \o <<Digits[(n % 10) + 1]>>

\* str(n) / the f-string conversion of an int
FormatInt(n) == IF n < 0 THEN <<"-">> \o FormatNat(-n) ELSE FormatNat(n)

\* s.split(sep) for a one-character separator: always at least one part
RECURSIVE split(_, _)
split(s, sep) ==
    IF \A i \in 1..Len(s) : s[i] # sep THEN <<s>>
    ELSE LET i == CHOOSE j \in 1..Len(s) :
                      s[j] = sep /\ \A k \in 1..(j - 1) : s[k] # sep
         IN  <<SubSeq(s, 1, i - 1)>> \o split(SubSeq(s, i + 1, Len(s)), sep)

\* s.strip() over the whitespace of the model
RECURSIVE strip(_)
strip(s) ==
    IF s = <<>> THEN s
    ELSE IF s[1] = " " THEN strip(Tail(s))
    ELSE IF s[Len(s)] = " " THEN strip(SubSeq(s, 1, Len(s) - 1))
    ELSE s

RECURSIVE DigitsValue(_, _)
DigitsValue(s, acc) ==
    IF s = <<>> THEN acc
    ELSE IF s[1] = "_" THEN DigitsValue(Tail(s), acc)
    ELSE DigitsValue(Tail(s), acc * 10 + DigitVal(s[1]))

\* int(s): surrounding whitespace, one optional sign, decimal digits with
\* single underscores between digits; anything else raises ValueError.
ParseInt(s) ==
    LET t    == strip(s)
        neg  == t # <<>> /\ t[1] = "-"
        body == IF t # <<>> /\ t[1] \in {"+", "-"} THEN Tail(t) ELSE t
        ok   == /\ body # <<>>
                /\ \A i \in 1..Len(body) : IsDigit(body[i]) \/ body[i] = "_"
                /\ body[1] # "_" /\ body[Len(body)] # "_"
                /\ \A i \in 1..(Len(body) - 1) : ~(body[i] = "_" /\ body[i + 1] = "_")
    IN  IF ok THEN [ok |-> TRUE, value |-> IF neg THEN -DigitsValue(body, 0)
                                           ELSE DigitsValue(body, 0)]
        ELSE [ok |-> FALSE, value |-> 0]


-----------------------------------------------------------------------------
(* app/core/click_id.py *)

\* Settings.click_id_secret
click_id_secret == <<"k", "e", "y">>

SigLen       == 16      \* sig[:16]
DigestHexLen == 64      \* len(hashlib.sha256().hexdigest())

\* hmac.new(key, msg, sha256) is modelled by a keyed rolling hash of the bytes
\* of key and msg.  It keeps what the code relies on: the digest is a function
\* of (key, msg) only, it is a fixed-length lowercase hex string, and distinct
\* messages of the model have distinct digests (SignCollisionFree).
RECURSIVE Absorb(_, _)
Absorb(h, s) ==
    IF s = <<>> THEN h
    ELSE Absorb((h * 41 + Ord(s[1])) % 65521, Tail(s))

hexdigest(key, msg) ==
    LET h == Absorb(Absorb(7, key), msg)
        word(i)   == (h + 7919 * ((i - 1) \div 4)) % 65536
        nibble(i) == (word(i) \div (16 ^ ((i - 1) % 4))) % 16
    IN  [i \in 1..DigestHexLen |-> HexChars[nibble(i) + 1]]

\* _sign(payload, secret): HMAC-SHA256, truncated to 16 hex chars
_sign(payload, secret) == SubSeq(hexdigest(secret, payload), 1, SigLen)

\* hmac.compare_digest(a, b) on str arguments: TypeError unless both are ASCII
compare_digest(a, b) ==
    IF \E i \in 1..Len(a) : ~IsAscii(a[i]) THEN "TypeError"
    ELSE IF \E i \in 1..Len(b) : ~IsAscii(b[i]) THEN "TypeError"
    ELSE IF a = b THEN "True" ELSE "False"

\* the dataclass ClickId
ClickId(uid, expiry, signature) ==
    [uid |-> uid, expiry |-> expiry, signature |-> signature]

\* ClickId.__str__
Str(c) == c.uid \o <<":">> \o FormatInt(c.expiry) \o <<":">> \o c.signature

\* (mutant) the comparison of is_expired made non-strict
is_expired_at_expiry(c, now) == now >= c.expiry * TicksPerSec

\* ClickId.is_expired at time now (ticks): time.time() > self.expiry
is_expired(c, now) == now > c.expiry * TicksPerSec

\* int(time.time())
IntTime(now) == now \div TicksPerSec

\* _uuid7(): the n-th identifier generated; hex, globally unique
_uuid7(n) == <<HexChars[10 + n], HexChars[n]>>

\* (mutant) the signed payload carries the mint time instead of the expiry
mint_click_id_signs_now(uid, now) ==
    LET expiry  == IntTime(now) + ExpirySecs
        payload == uid \o <<":">> \o FormatInt(IntTime(now))
    IN  [uid |-> uid, expiry |-> expiry,
         signature |-> SubSeq(hexdigest(<<"k", "e", "y">>, payload), 1, 16)]

\* mint_click_id() at time now, with the uid the generator returned
mint_click_id(uid, now) ==
    LET expiry  == IntTime(now) + ExpirySecs
        payload == uid \o <<":">> \o FormatInt(expiry)
        sig     == _sign(payload, click_id_secret)
    IN  ClickId(uid, expiry, sig)

\* The outcomes of a call: a ClickId, None, or an exception that propagates
Valid(c)    == [kind |-> "ClickId", click |-> c, exc |-> "-"]
None        == [kind |-> "None", click |-> ClickId(<<>>, 0, <<>>), exc |-> "-"]
Raised(exc) == [kind |-> "raise", click |-> ClickId(<<>>, 0, <<>>), exc |-> exc]

\* verify_click_id(raw) at time now
verify_click_id(raw, now) ==
    LET parts == split(raw, ":")
    IN  IF Len(parts) # 3 THEN None
        ELSE
        LET uid      == parts[1]
            parsed   == ParseInt(parts[2])
            sig      == parts[3]
        IN  IF ~parsed.ok THEN None
            ELSE
            LET expiry   == parsed.value
                expected == _sign(uid \o <<":">> \o FormatInt(expiry), click_id_secret)
                same     == compare_digest(sig, expected)
                click    == ClickId(uid, expiry, sig)
            IN  IF same = "TypeError" THEN Raised("TypeError")
                ELSE IF same = "False" THEN None
                ELSE IF is_expired(click, now) THEN None
                ELSE Valid(click)

-----------------------------------------------------------------------------
(* Callers of the codec: minting, and strings handed to verify_click_id *)

NoCall == [raw |-> <<>>, at |-> -1, res |-> None]

\* one call of verify_click_id(raw) at the current time
Call(raw) == [raw |-> raw, at |-> clock, res |-> verify_click_id(raw, clock)]

\* the token string with its three segments
Token(uid, expiry_str, sig) == uid \o <<":">> \o expiry_str \o <<":">> \o sig

\* s with one character replaced by a character of chars
\* Edits: every string one edit away from s (a character of chars inserted or
\* substituted, or a character removed)
Flips(s, chars) == {[s EXCEPT ![i] = c] : i \in 1..Len(s), c \in chars}

Edits(s, chars) ==
    {SubSeq(s, 1, i) \o <<c>> \o SubSeq(s, i + 1, Len(s)) :
        i \in 0..Len(s), c \in chars}
    \cup Flips(s, chars)
    \cup {SubSeq(s, 1, i - 1) \o SubSeq(s, i + 1, Len(s)) : i \in 1..Len(s)}

ExpiryTamperChars == {"0", "1", "+", "-", " ", "_", "x", ":"}
SigTamperChars    == {"0", ":", NonAscii}

\* the strings of test_malformed_strings_rejected, and two with an integer
\* expiry and a foreign signature
Malformed ==
    { <<>>,
      <<"o", "n", "e">>,
      <<"a", ":", "b">>,
      <<"a", ":", "x", ":", "c">>,
      <<"a", ":", "b", ":", "c", ":", "d">>,
      <<"a", ":", "9", ":", "c">>,
      <<"a", ":", "9", ":", NonAscii>> }

NoResponse == [endpoint |-> "-", click_id |-> <<>>, status |-> 0, stored |-> FALSE]

InitCodec ==
    /\ clock = StartClock
    /\ minted = <<>>
    /\ last = NoCall
    /\ memory = <<>>
    /\ events = <<>>
    /\ response = NoResponse
    /\ sreq = "idle"
    /\ verdict = "idle"
    /\ creq = "idle"
    /\ intel = "idle"
    /\ preq = "idle"
    /\ pres = "idle"
    /\ dedupe = <<>>
    /\ pc = "idle"

\* time passes (between calls: a call runs at one instant)
Tick ==
    /\ clock < MaxClock
    /\ last = NoCall
    /\ clock' = clock + 1
    /\ UNCHANGED <<minted, last, eventVars, scoreVars, classVars, paramVars, flowVars>>

\* mint_click_id()
Mint ==
    /\ Len(minted) < MaxMinted
    /\ minted' = Append(minted, [click |-> mint_click_id(_uuid7(Len(minted) + 1), clock),
                                 at |-> clock])
    /\ UNCHANGED <<clock, last, eventVars, scoreVars, classVars, paramVars, flowVars>>

\* the caller drops the outcome of the call
Forget ==
    /\ last # NoCall
    /\ last' = NoCall
    /\ UNCHANGED <<clock, minted, eventVars, scoreVars, classVars, paramVars, flowVars>>

\* verify_click_id(str(c)) for a minted c (test_roundtrip_mint_verify)
VerifyMinted ==
    /\ last = NoCall
    /\ \E i \in 1..Len(minted) : last' = Call(Str(minted[i].click))
    /\ UNCHANGED <<clock, minted, eventVars, scoreVars, classVars, paramVars, flowVars>>

\* a minted token with its signature segment altered (test_tampered_signature_rejected)
VerifyTamperedSignature ==
    /\ last = NoCall
    /\ \E i \in 1..Len(minted) :
         LET c == minted[i].click
         IN  \E sig \in (Flips(c.signature, SigTamperChars)
                            \cup {[j \in 1..SigLen |-> "0"]}) \ {c.signature} :
                last' = Call(Token(c.uid, FormatInt(c.expiry), sig))
    /\ UNCHANGED <<clock, minted, eventVars, scoreVars, classVars, paramVars, flowVars>>

\* a minted token with its expiry segment altered and the signature kept
\* (test_tampered_expiry_rejected)
VerifyTamperedExpiry ==
    /\ last = NoCall
    /\ \E i \in 1..Len(minted) :
         LET c == minted[i].click
         IN  \E seg \in (Edits(FormatInt(c.expiry), ExpiryTamperChars)
                            \cup {FormatInt(c.expiry + 1)}) \ {FormatInt(c.expiry)} :
                last' = Call(Token(c.uid, seg, c.signature))
    /\ UNCHANGED <<clock, minted, eventVars, scoreVars, classVars, paramVars, flowVars>>

\* a minted uid with another expiry, signed again with the secret
\* (test_expired_click_id_rejected)
VerifyResigned ==
    /\ last = NoCall
    /\ \E i \in 1..Len(minted), e \in (StartSec - 1)..(StartSec + HorizonSec) :
         LET uid == minted[i].click.uid
             sig == _sign(uid \o <<":">> \o FormatInt(e), click_id_secret)
         IN  last' = Call(Str(ClickId(uid, e, sig)))
    /\ UNCHANGED <<clock, minted, eventVars, scoreVars, classVars, paramVars, flowVars>>

\* strings that are no token (test_malformed_strings_rejected)
VerifyMalformed ==
    /\ last = NoCall
    /\ \E raw \in Malformed : last' = Call(raw)
    /\ UNCHANGED <<clock, minted, eventVars, scoreVars, classVars, paramVars, flowVars>>

NextCodec ==
    \/ Tick
    \/ Mint
    \/ Forget
    \/ VerifyMinted
    \/ VerifyTamperedExpiry
    \/ VerifyTamperedSignature
    \/ VerifyResigned
    \/ VerifyMalformed

SpecCodec == InitCodec /\ [][NextCodec]_vars

\* distinct payloads of the model have distinct signatures
SignCollisionFree ==
    \A u \in {_uuid7(n) : n \in 1..MaxMinted}, e1, e2 \in -1..(StartSec + HorizonSec + ExpirySecs + 100) :
        e1 # e2 => _sign(u \o <<":">> \o FormatInt(e1), click_id_secret)
                    # _sign(u \o <<":">> \o FormatInt(e2), click_id_secret)

-----------------------------------------------------------------------------
(* Properties of the codec *)

Called == last.at >= 0
Accepted == last.res.kind = "ClickId"

StartsWith(s, p) == Len(s) >= Len(p) /\ SubSeq(s, 1, Len(p)) = p
EndsWith(s, p)   == Len(s) >= Len(p) /\ SubSeq(s, Len(s) - Len(p) + 1, Len(s)) = p

\* raw is str(c) with the signature segment replaced by something else
SignatureReplaced(raw, c) ==
    /\ StartsWith(raw, c.uid \o <<":">> \o FormatInt(c.expiry) \o <<":">>)
    /\ raw # Str(c)

\* raw is str(c) with the expiry segment replaced by another string
ExpiryReplaced(raw, c) ==
    /\ StartsWith(raw, c.uid \o <<":">>)
    /\ EndsWith(raw, <<":">> \o c.signature)
    /\ Len(raw) >= Len(c.uid) + Len(c.signature) + 2
    /\ raw # Str(c)

\* raw is uid:expiry:sig with the expiry in str(int) form and the signature
\* that the secret gives for uid:expiry
WellSigned(raw) ==
    LET parts == split(raw, ":")
    IN  /\ Len(parts) = 3
        /\ ParseInt(parts[2]).ok
        /\ FormatInt(ParseInt(parts[2]).value) = parts[2]
        /\ parts[3] = _sign(parts[1] \o <<":">> \o parts[2], click_id_secret)

ExpiryOf(raw) == ParseInt(split(raw, ":")[2]).value

\* C1: verify_click_id(str(c)) for a minted c, called no later than c.expiry,
\* returns a ClickId with c's uid, expiry and signature.
C1_RoundTrip ==
    \A i \in 1..Len(minted) :
        LET c == minted[i].click
        IN  (Called /\ last.raw = Str(c) /\ last.at <= c.expiry * TicksPerSec)
                => (Accepted /\ last.res.click = c)

C1_Witness ==
    \E i \in 1..Len(minted) :
        Called /\ last.raw = Str(minted[i].click) /\ Accepted
        /\ Len(FormatInt(minted[i].click.expiry)) = 2

\* C2 (as claimed): a minted token with its signature segment replaced by a
\* different value, or with its expiry segment replaced by any different
\* string under the original signature, makes verify_click_id return None.
C2_TamperRejected ==
    \A i \in 1..Len(minted) :
        LET c == minted[i].click
        IN  (Called /\ (SignatureReplaced(last.raw, c) \/ ExpiryReplaced(last.raw, c)))
                => last.res = None

\* C3: a minted token carries expiry int(mint time) + TTL; a well-signed token
\* is accepted exactly at the times t <= expiry; and a well-signed token that
\* is not accepted now is not accepted at the next time either.
C3_ExpiryInv ==
    /\ \A i \in 1..Len(minted) :
          minted[i].click.expiry = IntTime(minted[i].at) + ExpirySecs
    /\ (Called /\ WellSigned(last.raw))
          => (Accepted <=> last.at <= ExpiryOf(last.raw) * TicksPerSec)

C3_StaysRejected ==
    \A i \in 1..Len(minted) :
        verify_click_id(Str(minted[i].click), clock) = None
            => verify_click_id(Str(minted[i].click), clock') = None

C3_ExpiryOverTime == [](C3_ExpiryInv) /\ [][C3_StaysRejected]_vars

C3_Witness ==
    \E i \in 1..Len(minted) :
        /\ Called /\ last.raw = Str(minted[i].click)
        /\ last.res = None
        /\ last.at > minted[i].click.expiry * TicksPerSec

\* C4 (as claimed): verify_click_id returns a ClickId or None for every
\* string, never raises, and returns None when the string has not exactly
\* three parts, the expiry is no integer, the signature differs or the token
\* is expired.
C4_VerifyTotal ==
    Called =>
        /\ last.res.kind \in {"ClickId", "None"}
        /\ LET parts == split(last.raw, ":")
           IN  (\/ Len(parts) # 3
                \/ ~ParseInt(parts[2]).ok
                \/ parts[3] # _sign(parts[1] \o <<":">> \o FormatInt(ParseInt(parts[2]).value),
                                    click_id_secret)
                \/ last.at > ParseInt(parts[2]).value * TicksPerSec)
               => last.res = None

-----------------------------------------------------------------------------
(* app/middleware/rate_limit.py: the sliding window *)

\* (mutant) a rejected call is recorded too
_sliding_window_check_recording(store, key, limit, window_seconds, now) ==
    LET cutoff  == now - window_seconds * TicksPerSec
        old     == IF key \in DOMAIN store THEN store[key] ELSE <<>>
        Recent(t) == t > cutoff
        kept    == SelectSeq(old, Recent)
        current_count == Len(kept)
    IN  [allowed |-> current_count < limit,
         remaining |-> IF current_count < limit THEN limit - current_count - 1 ELSE 0,
         store |-> (key :> Append(kept, now)) @@ store]

\* _sliding_window_check(key, limit, window_seconds) at time now on store:
\* the verdict and the store it leaves
_sliding_window_check(store, key, limit, window_seconds, now) ==
    LET cutoff  == now - window_seconds * TicksPerSec
        old     == IF key \in DOMAIN store THEN store[key] ELSE <<>>
        Recent(t) == t > cutoff
        kept    == SelectSeq(old, Recent)
        current_count == Len(kept)
    IN  IF current_count >= limit
        THEN [allowed |-> FALSE, remaining |-> 0,
              store |-> (key :> kept) @@ store]
        ELSE [allowed |-> TRUE, remaining |-> limit - current_count - 1,
              store |-> (key :> Append(kept, now)) @@ store]

\* rate_limit_api_key(key_id): check_rate_limit("apikey:" + key_id, limit),
\* which raises HTTP 429 when the window is full
rate_limit_api_key(store, key_id, now) ==
    _sliding_window_check(store, <<"apikey", key_id>>, ApiKeyLimit, WindowSecs, now)

-----------------------------------------------------------------------------
(* app/api/events.py *)

\* the API keys of the database: key -> organization
ApiKeys == [k1 |-> "org1"]
\* X-API-Key values a caller may send
SentKeys == {"k1", "unknown"}
\* organization_id values of a payload: the key's, another, and no UUID
SentOrgs == {"org1", "org2", "not-a-uuid"}

\* _validate_click_id(raw): the HTTP status it ends with (0: it returns)
_validate_click_id(raw, now) ==
    LET click == verify_click_id(raw, now)
    IN  IF click.kind = "raise" THEN 500
        ELSE IF click = None THEN 400
        ELSE 0

\* _validate_org(auth, org_id_str): UUID(...) then enforce_org_scope
_validate_org(key, org) ==
    IF org = "not-a-uuid" THEN 400
    ELSE IF ApiKeys[key] # org THEN 403
    ELSE 0

\* the row an endpoint persists; verified records what verify_click_id
\* says of the click identifier when the row is written
Row(endpoint, click_id, now) ==
    [endpoint |-> endpoint, click_id |-> click_id,
     verified |-> IF click_id = <<>> THEN "absent"
                  ELSE verify_click_id(click_id, now).kind]

Reply(endpoint, click_id, status, stored) ==
    [endpoint |-> endpoint, click_id |-> click_id, status |-> status, stored |-> stored]

\* ingest_session / ingest_pageview / ingest_conversion / ingest_refund:
\* require_auth, rate_limit_api_key, _validate_org, _validate_click_id,
\* db.add + commit
IngestValidated(endpoint, key, org, click_id) ==
    IF key \notin DOMAIN ApiKeys
    THEN /\ response' = Reply(endpoint, click_id, 401, FALSE)
         /\ UNCHANGED <<memory, events>>
    ELSE
    LET rl == rate_limit_api_key(memory, key, clock)
    IN  /\ memory' = rl.store
        /\ IF ~rl.allowed
           THEN /\ response' = Reply(endpoint, click_id, 429, FALSE)
                /\ UNCHANGED events
           ELSE IF _validate_org(key, org) # 0
           THEN /\ response' = Reply(endpoint, click_id, _validate_org(key, org), FALSE)
                /\ UNCHANGED events
           ELSE IF _validate_click_id(click_id, clock) # 0
           THEN /\ response' = Reply(endpoint, click_id,
                                     _validate_click_id(click_id, clock), FALSE)
                /\ UNCHANGED events
           ELSE /\ events' = Append(events, Row(endpoint, click_id, clock))
                /\ response' = Reply(endpoint, click_id, 201, TRUE)

\* ingest_universal: require_auth, rate_limit_api_key, then the row is
\* written with click_id = payload.click_id or payload.inf_click_id
IngestUniversalBody(key, click_id) ==
    IF key \notin DOMAIN ApiKeys
    THEN /\ response' = Reply("universal", click_id, 401, FALSE)
         /\ UNCHANGED <<memory, events>>
    ELSE
    LET rl == rate_limit_api_key(memory, key, clock)
    IN  /\ memory' = rl.store
        /\ IF ~rl.allowed
           THEN /\ response' = Reply("universal", click_id, 429, FALSE)
                /\ UNCHANGED events
           ELSE /\ events' = Append(events, Row("universal", click_id, clock))
                /\ response' = Reply("universal", click_id, 201, TRUE)

\* the click identifiers a connector sends: a minted token, the same token
\* with a rewritten expiry segment, with a foreign signature, and a string
\* that is no token
SentClickIds ==
    UNION { LET c == minted[i].click
            IN  { Str(c),
                  Token(c.uid, <<"+">> \o FormatInt(c.expiry), c.signature),
                  Token(c.uid, FormatInt(c.expiry + 1), c.signature),
                  Token(c.uid, FormatInt(c.expiry), [c.signature EXCEPT ![1] = NonAscii]) }
            : i \in 1..Len(minted) }
    \cup { <<"a", ":", "b">> }

CanIngest == response = NoResponse /\ Len(events) < MaxEvents

IngestSession ==
    /\ CanIngest
    /\ \E key \in SentKeys, org \in SentOrgs, cid \in SentClickIds :
          IngestValidated("session", key, org, cid)
    /\ UNCHANGED <<codecVars, scoreVars, classVars, paramVars, flowVars>>

IngestPageview ==
    /\ CanIngest
    /\ \E key \in SentKeys, org \in SentOrgs, cid \in SentClickIds :
          IngestValidated("pageview", key, org, cid)
    /\ UNCHANGED <<codecVars, scoreVars, classVars, paramVars, flowVars>>

IngestConversion ==
    /\ CanIngest
    /\ \E key \in SentKeys, org \in SentOrgs, cid \in SentClickIds :
          IngestValidated("conversion", key, org, cid)
    /\ UNCHANGED <<codecVars, scoreVars, classVars, paramVars, flowVars>>

IngestRefund ==
    /\ CanIngest
    /\ \E key \in SentKeys, org \in SentOrgs, cid \in SentClickIds :
          IngestValidated("refund", key, org, cid)
    /\ UNCHANGED <<codecVars, scoreVars, classVars, paramVars, flowVars>>

IngestUniversal ==
    /\ CanIngest
    /\ \E key \in SentKeys, cid \in SentClickIds \cup {<<>>} :
          IngestUniversalBody(key, cid)
    /\ UNCHANGED <<codecVars, scoreVars, classVars, paramVars, flowVars>>

\* the response has been sent
Respond ==
    /\ response # NoResponse
    /\ response' = NoResponse
    /\ UNCHANGED <<codecVars, memory, events, scoreVars, classVars, paramVars, flowVars>>

\* time passes between requests
TickEvents == response = NoResponse /\ Tick

InitEvents ==
    /\ clock = StartClock
    /\ minted = <<>>
    /\ last = NoCall
    /\ memory = <<>>
    /\ events = <<>>
    /\ response = NoResponse
    /\ sreq = "idle"
    /\ verdict = "idle"
    /\ creq = "idle"
    /\ intel = "idle"
    /\ preq = "idle"
    /\ pres = "idle"
    /\ dedupe = <<>>
    /\ pc = "idle"

NextEvents ==
    \/ TickEvents
    \/ Mint
    \/ IngestSession
    \/ IngestPageview
    \/ IngestConversion
    \/ IngestRefund
    \/ IngestUniversal
    \/ Respond

SpecEvents == InitEvents /\ [][NextEvents]_vars

\* C5 (as claimed): every stored event carries a click identifier that
\* verify_click_id accepted when the event was written, and a call whose click
\* identifier is invalid or expired ends in a client error and stores nothing.
C5_VerifiedBeforePersist ==
    /\ \A n \in 1..Len(events) : events[n].verified \in {"ClickId", "absent"}
    /\ (response # NoResponse /\ response.click_id # <<>>
            /\ verify_click_id(response.click_id, clock).kind # "ClickId")
          => (response.status \in 400..499 /\ ~response.stored)

-----------------------------------------------------------------------------
(* Regular expressions and substring search *)

\* p occurs in s from position i + 1 on
OccursAt(s, p, i) == i + Len(p) <= Len(s) /\ SubSeq(s, i + 1, i + Len(p)) = p

\* p in s
Contains(s, p) == \E i \in 0..(Len(s) - Len(p)) : OccursAt(s, p, i)

\* the regular expression "." in a chunk: any one character (the model has no
\* newline)
AnyChar == "any"

\* chunk p matches s at offset i
MatchesAt(s, p, i) ==
    /\ i + Len(p) <= Len(s)
    /\ \A k \in 1..Len(p) : p[k] = AnyChar \/ s[i + k] = p[k]

\* A pattern is a sequence of chunks of literal characters and "."; between
\* two chunks stands ".*".
\* re.search(pattern, s): the chunks occur in s in order, without overlap.
RECURSIVE SearchChunks(_, _)
SearchChunks(chunks, s) ==
    IF chunks = <<>> THEN TRUE
    ELSE IF \A j \in 0..(Len(s) - Len(chunks[1])) : ~MatchesAt(s, chunks[1], j)
         THEN FALSE
    ELSE LET i == CHOOSE j \in 0..(Len(s) - Len(chunks[1])) :
                      /\ MatchesAt(s, chunks[1], j)
                      /\ \A k \in 0..(j - 1) : ~MatchesAt(s, chunks[1], k)
         IN  SearchChunks(Tail(chunks), SubSeq(s, i + Len(chunks[1]) + 1, Len(s)))

\* (mutant) the pattern compiled without re.IGNORECASE
re_search_case_sensitive(pattern, s) == SearchChunks(pattern, s)

\* re.search(pattern, s, re.IGNORECASE) / re.compile(p, re.IGNORECASE).search(s)
re_search(pattern, s) ==
    SearchChunks([i \in 1..Len(pattern) |-> Lower(pattern[i])], Lower(s))

-----------------------------------------------------------------------------
(* app/core/bot_detection.py *)

HARD_BLOCK_UA_PATTERNS ==
    << <<"c", "u", "r", "l", "/">>,
       <<"w", "g", "e", "t", "/">>,
       <<"p", "y", "t", "h", "o", "n", "-", "r", "e", "q", "u", "e", "s", "t",
          "s">>,
       <<"p", "y", "t", "h", "o", "n", "-", "u", "r", "l", "l", "i", "b">>,
       <<"G", "o", "-", "h", "t", "t", "p", "-", "c", "l", "i", "e", "n", "t">>,
       <<"s", "c", "r", "a", "p", "y">>,
       <<"a", "i", "o", "h", "t", "t", "p">>,
       <<"n", "o", "d", "e", "-", "f", "e", "t", "c", "h">>,
       <<"a", "x", "i", "o", "s", "/">>,
       <<"j", "a", "v", "a", "/">>,
       <<"l", "i", "b", "w", "w", "w", "-", "p", "e", "r", "l">>,
       <<"H", "e", "a", "d", "l", "e", "s", "s", "C", "h", "r", "o", "m", "e">>,
       <<"P", "h", "a", "n", "t", "o", "m", "J", "S">>,
       <<"S", "e", "l", "e", "n", "i", "u", "m">>,
       <<"p", "u", "p", "p", "e", "t", "e", "e", "r">> >>

KNOWN_BOT_UA_PATTERNS ==
    << <<"G", "o", "o", "g", "l", "e", "b", "o", "t">>,
       <<"b", "i", "n", "g", "b", "o", "t">>,
       <<"S", "l", "u", "r", "p">>,
       <<"D", "u", "c", "k", "D", "u", "c", "k", "B", "o", "t">>,
       <<"f", "a", "c", "e", "b", "o", "o", "k", "e", "x", "t", "e", "r", "n", "a",
          "l", "h", "i", "t">>,
       <<"T", "w", "i", "t", "t", "e", "r", "b", "o", "t">>,
       <<"L", "i", "n", "k", "e", "d", "I", "n", "B", "o", "t">>,
       <<"S", "l", "a", "c", "k", "b", "o", "t">>,
       <<"T", "e", "l", "e", "g", "r", "a", "m", "B", "o", "t">>,
       <<"D", "i", "s", "c", "o", "r", "d", "b", "o", "t">>,
       <<"W", "h", "a", "t", "s", "A", "p", "p">> >>

DATACENTER_ASNS == {14061, 16509, 15169, 8075, 13335, 20473, 63949, 14618, 396982}

\* header names, as the ASGI server delivers them (lower case)
ACCEPT_LANGUAGE == <<"a", "c", "c", "e", "p", "t", "-", "l", "a", "n", "g", "u", "a", "g", "e">>
SEC_FETCH       == <<"s", "e", "c", "-", "f", "e", "t", "c", "h">>
SEC_FETCH_SITE  == <<"s", "e", "c", "-", "f", "e", "t", "c", "h", "-", "s", "i", "t", "e">>
SEC_FETCH_DEST  == <<"s", "e", "c", "-", "f", "e", "t", "c", "h", "-", "d", "e", "s", "t">>
SEC_FETCH_MODE  == <<"s", "e", "c", "-", "f", "e", "t", "c", "h", "-", "m", "o", "d", "e">>
SEC_CH_UA       == <<"s", "e", "c", "-", "c", "h", "-", "u", "a">>
MOZILLA         == <<"M", "o", "z", "i", "l", "l", "a">>

\* dict.get(key) with the default None, which is as falsy as ""
Get(d, key) == IF key \in DOMAIN d THEN d[key] ELSE <<>>

BotSignals ==
    [ua_blocked |-> FALSE, ua_is_known_bot |-> FALSE, ua_is_bot_lib |-> FALSE,
     missing_accept_language |-> FALSE, missing_sec_fetch |-> FALSE,
     is_datacenter_ip |-> FALSE, rate_limited |-> FALSE]

BotVerdict(risk_score, should_block, signals, reason) ==
    [risk_score |-> risk_score, should_block |-> should_block,
     signals |-> signals, reason |-> reason]

\* the hard-block patterns that match, in list order
HardBlockHits(ua_str) ==
    {i \in 1..Len(HARD_BLOCK_UA_PATTERNS) : re_search(<<HARD_BLOCK_UA_PATTERNS[i]>>, ua_str)}

\* the known-bot patterns that match: each adds 0.6
KnownBotHits(ua_str) ==
    {i \in 1..Len(KNOWN_BOT_UA_PATTERNS) : re_search(<<KNOWN_BOT_UA_PATTERNS[i]>>, ua_str)}

\* any(k.lower().startswith("sec-fetch") for k in headers)
has_sec_fetch(headers) ==
    \E k \in DOMAIN headers : OccursAt(Lower(k), SEC_FETCH, 0)

Min(a, b) == IF a < b THEN a ELSE b

\* (mutant) a hard block whenever the clamped score reaches 1.0
BlocksAtFullScore(score, signals) ==
    BotVerdict(IF score < 1000 THEN score ELSE 1000, score >= 1000, signals, <<>>)

\* the verdict of the additive layers: min(score, 1.0), round(score, 3)
Scored(score, signals) == BotVerdict(Min(score, 1000), FALSE, signals, <<>>)

\* (mutant) the known-bot loop leaves at its first match
KnownBotWeightOnce(ua_str) == IF KnownBotHits(ua_str) # {} THEN 600 ELSE 0

\* the weight the known-bot loop adds: 0.6 for every pattern that matches
KnownBotWeight(ua_str) == 600 * Cardinality(KnownBotHits(ua_str))

\* (mutant) the datacenter layer left out
DatacenterNever(asn) == FALSE

\* asn and asn in DATACENTER_ASNS (None and 0 are both falsy)
IsDatacenter(asn) == asn # 0 /\ asn \in DATACENTER_ASNS

\* score_request(user_agent, headers, asn, rate_limited); risk_score is in
\* thousandths.  lib_is_bot is what user_agents.parse(ua).is_bot answers.
score_request(user_agent, headers, asn, rate_limited, lib_is_bot) ==
    LET ua_str == user_agent
        hits   == HardBlockHits(ua_str)
    IN  IF hits # {}
        THEN LET first == CHOOSE i \in hits : \A j \in hits : i <= j
             IN  BotVerdict(1000, TRUE, [BotSignals EXCEPT !.ua_blocked = TRUE],
                            HARD_BLOCK_UA_PATTERNS[first])
        ELSE
        LET known   == KnownBotHits(ua_str) # {}
            bot_lib == ua_str # <<>> /\ lib_is_bot
            no_lang == Get(headers, ACCEPT_LANGUAGE) = <<>>
            no_sec  == ~has_sec_fetch(headers) /\ ua_str # <<>> /\ Contains(ua_str, MOZILLA)
            dc      == IsDatacenter(asn)
            score   == KnownBotWeight(ua_str)
                       + (IF bot_lib THEN 400 ELSE 0)
                       + (IF no_lang THEN 150 ELSE 0)
                       + (IF no_sec THEN 200 ELSE 0)
                       + (IF dc THEN 250 ELSE 0)
                       + (IF rate_limited THEN 300 ELSE 0)
            signals == [ua_blocked |-> FALSE, ua_is_known_bot |-> known,
                        ua_is_bot_lib |-> bot_lib,
                        missing_accept_language |-> no_lang,
                        missing_sec_fetch |-> no_sec,
                        is_datacenter_ip |-> dc, rate_limited |-> rate_limited]
        IN  Scored(score, signals)

-----------------------------------------------------------------------------
(* Requests handed to score_request *)

\* products a User-Agent is made of
UAParts ==
    { <<"M", "o", "z", "i", "l", "l", "a", "/", "5", ".", "0">>,
      <<"m", "o", "z", "i", "l", "l", "a", "/", "4", ".", "0">>,
      <<"c", "u", "r", "l", "/", "7">>,
      <<"S", "c", "r", "a", "p", "y", "/", "2">>,
      <<"G", "o", "o", "g", "l", "e", "b", "o", "t", "/", "2">>,
      <<"T", "w", "i", "t", "t", "e", "r", "b", "o", "t">> }

\* " ".join(parts)
RECURSIVE Join(_)
Join(parts) ==
    IF parts = <<>> THEN <<>>
    ELSE IF Len(parts) = 1 THEN parts[1]
    ELSE parts[1] \o <<" ">> \o Join(Tail(parts))

\* the User-Agent values: from none (None or "") to MaxUAParts products
UserAgents == {Join(p) : p \in UNION {[1..n -> UAParts] : n \in 0..MaxUAParts}}

LangHeaders ==
    { <<>>,
      ACCEPT_LANGUAGE :> <<>>,
      ACCEPT_LANGUAGE :> <<"e", "n", "-", "U", "S">> }

FetchHeaders ==
    { <<>>,
      SEC_CH_UA :> <<"C", "h", "r", "o", "m", "i", "u", "m">>,
      SEC_FETCH_SITE :> <<"c", "r", "o", "s", "s", "-", "s", "i", "t", "e">>,
      (SEC_FETCH_DEST :> <<"d", "o", "c", "u", "m", "e", "n", "t">>) @@ (SEC_FETCH_MODE :> <<"n", "a", "v", "i", "g", "a", "t", "e">>) }

HeaderDicts == {l @@ f : l \in LangHeaders, f \in FetchHeaders}

\* None, AWS (a datacenter), Comcast (none)
Asns == {0, 16509, 7922}

ScoreRequests ==
    [ua : UserAgents, headers : HeaderDicts, asn : Asns,
     rate_limited : BOOLEAN, lib_is_bot : BOOLEAN]

NoVerdict == BotVerdict(-1, FALSE, BotSignals, <<>>)

InitScore ==
    /\ sreq \in ScoreRequests
    /\ verdict = NoVerdict
    /\ clock = StartClock
    /\ minted = <<>>
    /\ last = NoCall
    /\ memory = <<>>
    /\ events = <<>>
    /\ response = NoResponse
    /\ creq = "idle"
    /\ intel = "idle"
    /\ preq = "idle"
    /\ pres = "idle"
    /\ dedupe = <<>>
    /\ pc = "idle"

\* score_request(...) returns
ScoreRequest ==
    /\ verdict = NoVerdict
    /\ verdict' = score_request(sreq.ua, sreq.headers, sreq.asn,
                                sreq.rate_limited, sreq.lib_is_bot)
    /\ UNCHANGED <<sreq, codecVars, eventVars, classVars, paramVars, flowVars>>

NextScore == ScoreRequest

SpecScore == InitScore /\ [][NextScore]_vars

-----------------------------------------------------------------------------
(* Properties of score_request *)

HasVerdict == verdict # NoVerdict

\* sig occurs in ua, letter case ignored
ContainsCI(ua, sig) ==
    \E i \in 1..Len(ua) :
        /\ i + Len(sig) - 1 <= Len(ua)
        /\ \A j \in 1..Len(sig) : LowerChar(ua[i + j - 1]) = LowerChar(sig[j])

HardBlockedUA(ua) ==
    \E i \in 1..Len(HARD_BLOCK_UA_PATTERNS) : ContainsCI(ua, HARD_BLOCK_UA_PATTERNS[i])

\* C6: a user agent that contains a hard-block signature in any letter case
\* scores 1.0 and is blocked, whatever the headers, ASN and rate-limit flag.
C6_HardBlock ==
    (HasVerdict /\ HardBlockedUA(sreq.ua))
        => (verdict.risk_score = 1000 /\ verdict.should_block)

C6_Witness ==
    /\ HasVerdict /\ verdict.should_block
    /\ ContainsCI(sreq.ua, <<"c", "u", "r", "l", "/">>)
    /\ sreq.rate_limited /\ sreq.asn \in DATACENTER_ASNS
    /\ DOMAIN sreq.headers = {}

\* C7: should_block implies risk_score 1.0, and should_block holds exactly
\* for the user agents that match a hard-block pattern.
C7_BlockOnlyByHardBlock ==
    HasVerdict =>
        /\ verdict.should_block => verdict.risk_score = 1000
        /\ verdict.should_block <=> HardBlockedUA(sreq.ua)

\* the additive layers reach 1.0 without blocking
C7_Witness ==
    HasVerdict /\ verdict.risk_score = 1000 /\ ~verdict.should_block

\* the terms of the claimed sum
K(r) == Cardinality({i \in 1..Len(KNOWN_BOT_UA_PATTERNS) :
                        ContainsCI(r.ua, KNOWN_BOT_UA_PATTERNS[i])})
B(r) == r.ua # <<>> /\ r.lib_is_bot
L(r) == ACCEPT_LANGUAGE \notin DOMAIN r.headers \/ r.headers[ACCEPT_LANGUAGE] = <<>>
SF(r) == /\ \E i \in 1..Len(r.ua) :
              i + 6 <= Len(r.ua) /\ SubSeq(r.ua, i, i + 6) = MOZILLA
         /\ \A k \in DOMAIN r.headers : ~ContainsCI(SubSeq(k, 1, Min(Len(k), 9)), SEC_FETCH)
D(r) == r.asn \in DATACENTER_ASNS
Bit(b) == IF b THEN 1 ELSE 0

\* C8: without a hard block, risk_score (in thousandths) is
\* min(1000, 600k + 400b + 150l + 200s + 250d + 300r), it lies in [0, 1000],
\* and every BotSignals flag is set exactly when its weight was added.
C8_AdditiveScore ==
    (HasVerdict /\ ~HardBlockedUA(sreq.ua)) =>
        /\ verdict.risk_score =
              Min(1000, 600 * K(sreq) + 400 * Bit(B(sreq)) + 150 * Bit(L(sreq))
                        + 200 * Bit(SF(sreq)) + 250 * Bit(D(sreq))
                        + 300 * Bit(sreq.rate_limited))
        /\ verdict.risk_score \in 0..1000
        /\ verdict.signals.ua_is_known_bot <=> K(sreq) >= 1
        /\ verdict.signals.ua_is_bot_lib <=> B(sreq)
        /\ verdict.signals.missing_accept_language <=> L(sreq)
        /\ verdict.signals.missing_sec_fetch <=> SF(sreq)
        /\ verdict.signals.is_datacenter_ip <=> D(sreq)
        /\ verdict.signals.rate_limited <=> sreq.rate_limited
        /\ ~verdict.signals.ua_blocked

\* two known-bot patterns match and the sum is clamped
C8_Witness ==
    /\ HasVerdict /\ ~verdict.should_block
    /\ K(sreq) = 2 /\ L(sreq) /\ ~B(sreq) /\ ~D(sreq)
    /\ verdict.risk_score = 1000

\* a browser request without any negative signal: the user agent says
\* Mozilla, matches no bot pattern and is no bot for the parser; a non-empty
\* Accept-Language and a Sec-Fetch-* header are present; no datacenter ASN;
\* not rate-limited
Clean(r) ==
    /\ Contains(r.ua, MOZILLA)
    /\ ~HardBlockedUA(r.ua) /\ K(r) = 0 /\ ~r.lib_is_bot
    /\ ~L(r) /\ ~SF(r) /\ ~D(r) /\ ~r.rate_limited

\* r with one negative signal added
WithoutLanguage(r) ==
    [r EXCEPT !.headers = [k \in DOMAIN r.headers \ {ACCEPT_LANGUAGE} |-> r.headers[k]]]
WithoutSecFetch(r) ==
    [r EXCEPT !.headers = [k \in {h \in DOMAIN r.headers : ~OccursAt(h, SEC_FETCH, 0)}
                              |-> r.headers[k]]]
FromDatacenter(r) == {[r EXCEPT !.asn = a] : a \in DATACENTER_ASNS}
RateLimited(r) == [r EXCEPT !.rate_limited = TRUE]

OneSignalAdded(r) ==
    {WithoutLanguage(r), WithoutSecFetch(r), RateLimited(r)} \cup FromDatacenter(r)

Score(r) == score_request(r.ua, r.headers, r.asn, r.rate_limited, r.lib_is_bot)

\* C9: a clean browser request scores 0.0 and is not blocked; the same
\* request with any single negative signal added scores strictly more and is
\* not blocked either.
C9_CleanFloorMonotone ==
    (HasVerdict /\ Clean(sreq)) =>
        /\ verdict.risk_score = 0 /\ ~verdict.should_block
        /\ \A r \in OneSignalAdded(sreq) :
              Score(r).risk_score > verdict.risk_score /\ ~Score(r).should_block

C9_Witness ==
    /\ HasVerdict /\ Clean(sreq) /\ verdict.risk_score = 0
    /\ sreq.asn = 7922
    /\ Score(WithoutSecFetch(sreq)).risk_score = 200

-----------------------------------------------------------------------------
(* app/core/referrer_intelligence.py *)

\* None where the code expects a str
Null == <<"None">>

\* bool(x) of a str or None
Truthy(x) == x # Null /\ x # <<>>

\* a pattern is a sequence of chunks, ".*" standing between two chunks
IN_APP_PATTERNS ==
    << [platform |-> <<"i", "n", "s", "t", "a", "g", "r", "a", "m">>,
         patterns |-> <<<<<<"I", "n", "s", "t", "a", "g", "r", "a", "m">>>>,
         <<<<"F", "B", "A", "N", "/", "F", "B", "I", "O", "S">>, <<"I", "n",
         "s", "t", "a", "g", "r", "a", "m">>>>>>],
       [platform |-> <<"t", "i", "k", "t", "o", "k">>,
         patterns |-> <<<<<<"B", "y", "t", "e", "d", "a", "n", "c", "e", "W",
         "e", "b", "v", "i", "e", "w">>>>, <<<<"B", "y", "t", "e", "L", "o",
         "c", "a", "l", "e">>>>, <<<<"m", "u", "s", "i", "c", "a", "l", "_",
         "l", "y">>>>, <<<<"T", "i", "k", "T", "o", "k">>>>>>],
       [platform |-> <<"f", "a", "c", "e", "b", "o", "o", "k">>,
         patterns |-> <<<<<<"F", "B", "A", "N", "/">>>>, <<<<"F", "B", "A",
         "V", "/">>>>, <<<<"F", "B", "_", "I", "A", "B">>>>, <<<<"[", "F",
         "B">>>>>>],
       [platform |-> <<"s", "n", "a", "p", "c", "h", "a", "t">>,
         patterns |-> <<<<<<"S", "n", "a", "p", "c", "h", "a", "t">>>>>>],
       [platform |-> <<"t", "w", "i", "t", "t", "e", "r">>,
         patterns |-> <<<<<<"T", "w", "i", "t", "t", "e", "r">>>>, <<<<"T",
         "w", "i", "t", "t", "e", "r", "A", "n", "d", "r", "o", "i",
         "d">>>>>>],
       [platform |-> <<"l", "i", "n", "k", "e", "d", "i", "n">>,
         patterns |-> <<<<<<"L", "i", "n", "k", "e", "d", "I", "n", "A", "p",
         "p">>>>>>],
       [platform |-> <<"p", "i", "n", "t", "e", "r", "e", "s", "t">>,
         patterns |-> <<<<<<"P", "i", "n", "t", "e", "r", "e", "s",
         "t">>>>>>],
       [platform |-> <<"r", "e", "d", "d", "i", "t">>,
         patterns |-> <<<<<<"R", "e", "d", "d", "i", "t", "/">>>>>>],
       [platform |-> <<"t", "e", "l", "e", "g", "r", "a", "m">>,
         patterns |-> <<<<<<"T", "e", "l", "e", "g", "r", "a", "m", "B", "o",
         "t">>>>, <<<<"T", "e", "l", "e", "g", "r", "a", "m">>>>>>],
       [platform |-> <<"w", "h", "a", "t", "s", "a", "p", "p">>,
         patterns |-> <<<<<<"W", "h", "a", "t", "s", "A", "p", "p">>>>>>],
       [platform |-> <<"w", "e", "c", "h", "a", "t">>,
         patterns |-> <<<<<<"M", "i", "c", "r", "o", "M", "e", "s", "s", "e",
         "n", "g", "e", "r">>>>>>],
       [platform |-> <<"l", "i", "n", "e">>, patterns |-> <<<<<<"L", "i",
         "n", "e", "/">>>>>>],
       [platform |-> <<"d", "i", "s", "c", "o", "r", "d">>,
         patterns |-> <<<<<<"D", "i", "s", "c", "o", "r", "d">>>>>>],
       [platform |-> <<"t", "h", "r", "e", "a", "d", "s">>,
         patterns |-> <<<<<<"B", "a", "r", "c", "e", "l", "o", "n",
         "a">>>>>>],
       [platform |-> <<"y", "o", "u", "t", "u", "b", "e">>,
         patterns |-> <<<<<<"c", "o", "m", AnyChar, "g", "o", "o", "g", "l",
         "e", AnyChar, "a", "n", "d", "r", "o", "i", "d", AnyChar, "y", "o",
         "u", "t", "u", "b", "e">>>>, <<<<"Y", "o", "u", "T", "u", "b",
         "e">>>>>>] >>

CLICK_ID_TO_PLATFORM ==
    << [param |-> <<"f", "b", "c", "l", "i", "d">>, platform |-> <<"f", "a",
         "c", "e", "b", "o", "o", "k">>, medium |-> <<"s", "o", "c", "i",
         "a", "l">>],
       [param |-> <<"g", "c", "l", "i", "d">>, platform |-> <<"g", "o", "o",
         "g", "l", "e">>, medium |-> <<"p", "a", "i", "d">>],
       [param |-> <<"g", "b", "r", "a", "i", "d">>, platform |-> <<"g", "o",
         "o", "g", "l", "e">>, medium |-> <<"p", "a", "i", "d">>],
       [param |-> <<"w", "b", "r", "a", "i", "d">>, platform |-> <<"g", "o",
         "o", "g", "l", "e">>, medium |-> <<"p", "a", "i", "d">>],
       [param |-> <<"t", "t", "c", "l", "i", "d">>, platform |-> <<"t", "i",
         "k", "t", "o", "k">>, medium |-> <<"s", "o", "c", "i", "a", "l">>],
       [param |-> <<"t", "w", "c", "l", "i", "d">>, platform |-> <<"t", "w",
         "i", "t", "t", "e", "r">>, medium |-> <<"s", "o", "c", "i", "a",
         "l">>],
       [param |-> <<"l", "i", "_", "f", "a", "t", "_", "i", "d">>,
         platform |-> <<"l", "i", "n", "k", "e", "d", "i", "n">>,
         medium |-> <<"s", "o", "c", "i", "a", "l">>],
       [param |-> <<"s", "c", "l", "i", "d">>, platform |-> <<"s", "n", "a",
         "p", "c", "h", "a", "t">>, medium |-> <<"s", "o", "c", "i", "a",
         "l">>],
       [param |-> <<"m", "s", "c", "l", "k", "i", "d">>, platform |-> <<"b",
         "i", "n", "g">>, medium |-> <<"p", "a", "i", "d">>],
       [param |-> <<"m", "c", "_", "e", "i", "d">>, platform |-> <<"m", "a",
         "i", "l", "c", "h", "i", "m", "p">>, medium |-> <<"e", "m", "a",
         "i", "l">>],
       [param |-> <<"i", "g", "s", "h", "i", "d">>, platform |-> <<"i", "n",
         "s", "t", "a", "g", "r", "a", "m">>, medium |-> <<"s", "o", "c",
         "i", "a", "l">>],
       [param |-> <<"p", "i", "n", "_", "c", "l", "i", "c", "k", "_", "i",
         "d">>, platform |-> <<"p", "i", "n", "t", "e", "r", "e", "s", "t">>,
         medium |-> <<"s", "o", "c", "i", "a", "l">>],
       [param |-> <<"r", "d", "t", "_", "c", "i", "d">>, platform |-> <<"r",
         "e", "d", "d", "i", "t">>, medium |-> <<"s", "o", "c", "i", "a",
         "l">>],
       [param |-> <<"y", "c", "l", "i", "d">>, platform |-> <<"y", "a", "n",
         "d", "e", "x">>, medium |-> <<"p", "a", "i", "d">>],
       [param |-> <<"d", "c", "l", "i", "d">>, platform |-> <<"g", "o", "o",
         "g", "l", "e">>, medium |-> <<"p", "a", "i", "d">>],
       [param |-> <<"_", "b", "r", "a", "n", "c", "h", "_", "m", "a", "t",
         "c", "h", "_", "i", "d">>, platform |-> <<"b", "r", "a", "n", "c",
         "h">>, medium |-> <<"r", "e", "f", "e", "r", "r", "a", "l">>] >>

UTM_SOURCE_MAP ==
    << [source |-> <<"i", "n", "s", "t", "a", "g", "r", "a", "m">>,
         platform |-> <<"i", "n", "s", "t", "a", "g", "r", "a", "m">>,
         medium |-> <<"s", "o", "c", "i", "a", "l">>],
       [source |-> <<"i", "g">>, platform |-> <<"i", "n", "s", "t", "a", "g",
         "r", "a", "m">>, medium |-> <<"s", "o", "c", "i", "a", "l">>],
       [source |-> <<"t", "i", "k", "t", "o", "k">>, platform |-> <<"t", "i",
         "k", "t", "o", "k">>, medium |-> <<"s", "o", "c", "i", "a", "l">>],
       [source |-> <<"t", "t">>, platform |-> <<"t", "i", "k", "t", "o",
         "k">>, medium |-> <<"s", "o", "c", "i", "a", "l">>],
       [source |-> <<"f", "a", "c", "e", "b", "o", "o", "k">>,
         platform |-> <<"f", "a", "c", "e", "b", "o", "o", "k">>,
         medium |-> <<"s", "o", "c", "i", "a", "l">>],
       [source |-> <<"f", "b">>, platform |-> <<"f", "a", "c", "e", "b", "o",
         "o", "k">>, medium |-> <<"s", "o", "c", "i", "a", "l">>],
       [source |-> <<"t", "w", "i", "t", "t", "e", "r">>, platform |-> <<"t",
         "w", "i", "t", "t", "e", "r">>, medium |-> <<"s", "o", "c", "i",
         "a", "l">>],
       [source |-> <<"x">>, platform |-> <<"t", "w", "i", "t", "t", "e",
         "r">>, medium |-> <<"s", "o", "c", "i", "a", "l">>],
       [source |-> <<"y", "o", "u", "t", "u", "b", "e">>, platform |-> <<"y",
         "o", "u", "t", "u", "b", "e">>, medium |-> <<"s", "o", "c", "i",
         "a", "l">>],
       [source |-> <<"y", "t">>, platform |-> <<"y", "o", "u", "t", "u", "b",
         "e">>, medium |-> <<"s", "o", "c", "i", "a", "l">>],
       [source |-> <<"l", "i", "n", "k", "e", "d", "i", "n">>,
         platform |-> <<"l", "i", "n", "k", "e", "d", "i", "n">>,
         medium |-> <<"s", "o", "c", "i", "a", "l">>],
       [source |-> <<"l", "i">>, platform |-> <<"l", "i", "n", "k", "e", "d",
         "i", "n">>, medium |-> <<"s", "o", "c", "i", "a", "l">>],
       [source |-> <<"p", "i", "n", "t", "e", "r", "e", "s", "t">>,
         platform |-> <<"p", "i", "n", "t", "e", "r", "e", "s", "t">>,
         medium |-> <<"s", "o", "c", "i", "a", "l">>],
       [source |-> <<"r", "e", "d", "d", "i", "t">>, platform |-> <<"r", "e",
         "d", "d", "i", "t">>, medium |-> <<"s", "o", "c", "i", "a", "l">>],
       [source |-> <<"s", "n", "a", "p", "c", "h", "a", "t">>,
         platform |-> <<"s", "n", "a", "p", "c", "h", "a", "t">>,
         medium |-> <<"s", "o", "c", "i", "a", "l">>],
       [source |-> <<"t", "h", "r", "e", "a", "d", "s">>, platform |-> <<"t",
         "h", "r", "e", "a", "d", "s">>, medium |-> <<"s", "o", "c", "i",
         "a", "l">>],
       [source |-> <<"t", "e", "l", "e", "g", "r", "a", "m">>,
         platform |-> <<"t", "e", "l", "e", "g", "r", "a", "m">>,
         medium |-> <<"m", "e", "s", "s", "a", "g", "i", "n", "g">>],
       [source |-> <<"w", "h", "a", "t", "s", "a", "p", "p">>,
         platform |-> <<"w", "h", "a", "t", "s", "a", "p", "p">>,
         medium |-> <<"m", "e", "s", "s", "a", "g", "i", "n", "g">>],
       [source |-> <<"d", "i", "s", "c", "o", "r", "d">>, platform |-> <<"d",
         "i", "s", "c", "o", "r", "d">>, medium |-> <<"m", "e", "s", "s",
         "a", "g", "i", "n", "g">>],
       [source |-> <<"g", "o", "o", "g", "l", "e">>, platform |-> <<"g", "o",
         "o", "g", "l", "e">>, medium |-> <<"s", "e", "a", "r", "c", "h">>],
       [source |-> <<"b", "i", "n", "g">>, platform |-> <<"b", "i", "n",
         "g">>, medium |-> <<"s", "e", "a", "r", "c", "h">>],
       [source |-> <<"g", "m", "a", "i", "l">>, platform |-> <<"g", "m", "a",
         "i", "l">>, medium |-> <<"e", "m", "a", "i", "l">>],
       [source |-> <<"e", "m", "a", "i", "l">>, platform |-> <<"e", "m", "a",
         "i", "l">>, medium |-> <<"e", "m", "a", "i", "l">>],
       [source |-> <<"n", "e", "w", "s", "l", "e", "t", "t", "e", "r">>,
         platform |-> <<"n", "e", "w", "s", "l", "e", "t", "t", "e", "r">>,
         medium |-> <<"e", "m", "a", "i", "l">>],
       [source |-> <<"m", "a", "i", "l", "c", "h", "i", "m", "p">>,
         platform |-> <<"m", "a", "i", "l", "c", "h", "i", "m", "p">>,
         medium |-> <<"e", "m", "a", "i", "l">>],
       [source |-> <<"s", "e", "n", "d", "g", "r", "i", "d">>,
         platform |-> <<"s", "e", "n", "d", "g", "r", "i", "d">>,
         medium |-> <<"e", "m", "a", "i", "l">>],
       [source |-> <<"k", "l", "a", "v", "i", "y", "o">>, platform |-> <<"k",
         "l", "a", "v", "i", "y", "o">>, medium |-> <<"e", "m", "a", "i",
         "l">>],
       [source |-> <<"s", "m", "s">>, platform |-> <<"s", "m", "s">>,
         medium |-> <<"m", "e", "s", "s", "a", "g", "i", "n", "g">>],
       [source |-> <<"t", "e", "x", "t">>, platform |-> <<"s", "m", "s">>,
         medium |-> <<"m", "e", "s", "s", "a", "g", "i", "n", "g">>] >>

EMAIL_CLIENT_PATTERNS ==
    << [client |-> <<"g", "m", "a", "i", "l">>, patterns |-> <<<<<<"G", "o",
         "o", "g", "l", "e", "b", "o", "t">>>>, <<<<"G", "o", "o", "g", "l",
         "e", "-", "S", "a", "f", "e", "t", "y">>>>>>],
       [client |-> <<"o", "u", "t", "l", "o", "o", "k">>,
         patterns |-> <<<<<<"M", "i", "c", "r", "o", "s", "o", "f", "t", " ",
         "O", "f", "f", "i", "c", "e">>>>, <<<<"O", "u", "t", "l", "o", "o",
         "k">>>>, <<<<"m", "s", "-", "o", "f", "f", "i", "c", "e">>>>>>],
       [client |-> <<"y", "a", "h", "o", "o">>, patterns |-> <<<<<<"Y", "a",
         "h", "o", "o", "!", " ", "S", "l", "u", "r", "p">>>>, <<<<"Y", "a",
         "h", "o", "o", "M", "a", "i", "l", "P", "r", "o", "x", "y">>>>>>],
       [client |-> <<"a", "p", "p", "l", "e", "_", "m", "a", "i", "l">>,
         patterns |-> <<<<<<"A", "p", "p", "l", "e", "M", "a", "i",
         "l">>>>>>],
       [client |-> <<"t", "h", "u", "n", "d", "e", "r", "b", "i", "r", "d">>,
         patterns |-> <<<<<<"T", "h", "u", "n", "d", "e", "r", "b", "i", "r",
         "d">>>>>>] >>

\* DOMAIN_TO_PLATFORM in source order
DOMAIN_TO_PLATFORM ==
    << [domain |-> <<"i", "n", "s", "t", "a", "g", "r", "a", "m", ".", "c",
         "o", "m">>, platform |-> <<"i", "n", "s", "t", "a", "g", "r", "a",
         "m">>, medium |-> <<"s", "o", "c", "i", "a", "l">>],
       [domain |-> <<"l", ".", "i", "n", "s", "t", "a", "g", "r", "a", "m",
         ".", "c", "o", "m">>, platform |-> <<"i", "n", "s", "t", "a", "g",
         "r", "a", "m">>, medium |-> <<"s", "o", "c", "i", "a", "l">>],
       [domain |-> <<"w", "w", "w", ".", "i", "n", "s", "t", "a", "g", "r",
         "a", "m", ".", "c", "o", "m">>, platform |-> <<"i", "n", "s", "t",
         "a", "g", "r", "a", "m">>, medium |-> <<"s", "o", "c", "i", "a",
         "l">>],
       [domain |-> <<"t", "i", "k", "t", "o", "k", ".", "c", "o", "m">>,
         platform |-> <<"t", "i", "k", "t", "o", "k">>, medium |-> <<"s",
         "o", "c", "i", "a", "l">>],
       [domain |-> <<"w", "w", "w", ".", "t", "i", "k", "t", "o", "k", ".",
         "c", "o", "m">>, platform |-> <<"t", "i", "k", "t", "o", "k">>,
         medium |-> <<"s", "o", "c", "i", "a", "l">>],
       [domain |-> <<"v", "m", ".", "t", "i", "k", "t", "o", "k", ".", "c",
         "o", "m">>, platform |-> <<"t", "i", "k", "t", "o", "k">>,
         medium |-> <<"s", "o", "c", "i", "a", "l">>],
       [domain |-> <<"t", "w", "i", "t", "t", "e", "r", ".", "c", "o", "m">>,
         platform |-> <<"t", "w", "i", "t", "t", "e", "r">>,
         medium |-> <<"s", "o", "c", "i", "a", "l">>],
       [domain |-> <<"x", ".", "c", "o", "m">>, platform |-> <<"t", "w", "i",
         "t", "t", "e", "r">>, medium |-> <<"s", "o", "c", "i", "a", "l">>],
       [domain |-> <<"t", ".", "c", "o">>, platform |-> <<"t", "w", "i", "t",
         "t", "e", "r">>, medium |-> <<"s", "o", "c", "i", "a", "l">>],
       [domain |-> <<"f", "a", "c", "e", "b", "o", "o", "k", ".", "c", "o",
         "m">>, platform |-> <<"f", "a", "c", "e", "b", "o", "o", "k">>,
         medium |-> <<"s", "o", "c", "i", "a", "l">>],
       [domain |-> <<"w", "w", "w", ".", "f", "a", "c", "e", "b", "o", "o",
         "k", ".", "c", "o", "m">>, platform |-> <<"f", "a", "c", "e", "b",
         "o", "o", "k">>, medium |-> <<"s", "o", "c", "i", "a", "l">>],
       [domain |-> <<"m", ".", "f", "a", "c", "e", "b", "o", "o", "k", ".",
         "c", "o", "m">>, platform |-> <<"f", "a", "c", "e", "b", "o", "o",
         "k">>, medium |-> <<"s", "o", "c", "i", "a", "l">>],
       [domain |-> <<"l", ".", "f", "a", "c", "e", "b", "o", "o", "k", ".",
         "c", "o", "m">>, platform |-> <<"f", "a", "c", "e", "b", "o", "o",
         "k">>, medium |-> <<"s", "o", "c", "i", "a", "l">>],
       [domain |-> <<"l", "m", ".", "f", "a", "c", "e", "b", "o", "o", "k",
         ".", "c", "o", "m">>, platform |-> <<"f", "a", "c", "e", "b", "o",
         "o", "k">>, medium |-> <<"s", "o", "c", "i", "a", "l">>],
       [domain |-> <<"f", "b", ".", "m", "e">>, platform |-> <<"f", "a", "c",
         "e", "b", "o", "o", "k">>, medium |-> <<"s", "o", "c", "i", "a",
         "l">>],
       [domain |-> <<"y", "o", "u", "t", "u", "b", "e", ".", "c", "o", "m">>,
         platform |-> <<"y", "o", "u", "t", "u", "b", "e">>,
         medium |-> <<"s", "o", "c", "i", "a", "l">>],
       [domain |-> <<"w", "w", "w", ".", "y", "o", "u", "t", "u", "b", "e",
         ".", "c", "o", "m">>, platform |-> <<"y", "o", "u", "t", "u", "b",
         "e">>, medium |-> <<"s", "o", "c", "i", "a", "l">>],
       [domain |-> <<"m", ".", "y", "o", "u", "t", "u", "b", "e", ".", "c",
         "o", "m">>, platform |-> <<"y", "o", "u", "t", "u", "b", "e">>,
         medium |-> <<"s", "o", "c", "i", "a", "l">>],
       [domain |-> <<"y", "o", "u", "t", "u", ".", "b", "e">>,
         platform |-> <<"y", "o", "u", "t", "u", "b", "e">>,
         medium |-> <<"s", "o", "c", "i", "a", "l">>],
       [domain |-> <<"l", "i", "n", "k", "e", "d", "i", "n", ".", "c", "o",
         "m">>, platform |-> <<"l", "i", "n", "k", "e", "d", "i", "n">>,
         medium |-> <<"s", "o", "c", "i", "a", "l">>],
       [domain |-> <<"w", "w", "w", ".", "l", "i", "n", "k", "e", "d", "i",
         "n", ".", "c", "o", "m">>, platform |-> <<"l", "i", "n", "k", "e",
         "d", "i", "n">>, medium |-> <<"s", "o", "c", "i", "a", "l">>],
       [domain |-> <<"l", "n", "k", "d", ".", "i", "n">>, platform |-> <<"l",
         "i", "n", "k", "e", "d", "i", "n">>, medium |-> <<"s", "o", "c",
         "i", "a", "l">>],
       [domain |-> <<"p", "i", "n", "t", "e", "r", "e", "s", "t", ".", "c",
         "o", "m">>, platform |-> <<"p", "i", "n", "t", "e", "r", "e", "s",
         "t">>, medium |-> <<"s", "o", "c", "i", "a", "l">>],
       [domain |-> <<"w", "w", "w", ".", "p", "i", "n", "t", "e", "r", "e",
         "s", "t", ".", "c", "o", "m">>, platform |-> <<"p", "i", "n", "t",
         "e", "r", "e", "s", "t">>, medium |-> <<"s", "o", "c", "i", "a",
         "l">>],
       [domain |-> <<"p", "i", "n", ".", "i", "t">>, platform |-> <<"p", "i",
         "n", "t", "e", "r", "e", "s", "t">>, medium |-> <<"s", "o", "c",
         "i", "a", "l">>],
       [domain |-> <<"r", "e", "d", "d", "i", "t", ".", "c", "o", "m">>,
         platform |-> <<"r", "e", "d", "d", "i", "t">>, medium |-> <<"s",
         "o", "c", "i", "a", "l">>],
       [domain |-> <<"w", "w", "w", ".", "r", "e", "d", "d", "i", "t", ".",
         "c", "o", "m">>, platform |-> <<"r", "e", "d", "d", "i", "t">>,
         medium |-> <<"s", "o", "c", "i", "a", "l">>],
       [domain |-> <<"o", "l", "d", ".", "r", "e", "d", "d", "i", "t", ".",
         "c", "o", "m">>, platform |-> <<"r", "e", "d", "d", "i", "t">>,
         medium |-> <<"s", "o", "c", "i", "a", "l">>],
       [domain |-> <<"s", "n", "a", "p", "c", "h", "a", "t", ".", "c", "o",
         "m">>, platform |-> <<"s", "n", "a", "p", "c", "h", "a", "t">>,
         medium |-> <<"s", "o", "c", "i", "a", "l">>],
       [domain |-> <<"w", "w", "w", ".", "s", "n", "a", "p", "c", "h", "a",
         "t", ".", "c", "o", "m">>, platform |-> <<"s", "n", "a", "p", "c",
         "h", "a", "t">>, medium |-> <<"s", "o", "c", "i", "a", "l">>],
       [domain |-> <<"t", "h", "r", "e", "a", "d", "s", ".", "n", "e", "t">>,
         platform |-> <<"t", "h", "r", "e", "a", "d", "s">>,
         medium |-> <<"s", "o", "c", "i", "a", "l">>],
       [domain |-> <<"w", "w", "w", ".", "t", "h", "r", "e", "a", "d", "s",
         ".", "n", "e", "t">>, platform |-> <<"t", "h", "r", "e", "a", "d",
         "s">>, medium |-> <<"s", "o", "c", "i", "a", "l">>],
       [domain |-> <<"t", "u", "m", "b", "l", "r", ".", "c", "o", "m">>,
         platform |-> <<"t", "u", "m", "b", "l", "r">>, medium |-> <<"s",
         "o", "c", "i", "a", "l">>],
       [domain |-> <<"w", "w", "w", ".", "t", "u", "m", "b", "l", "r", ".",
         "c", "o", "m">>, platform |-> <<"t", "u", "m", "b", "l", "r">>,
         medium |-> <<"s", "o", "c", "i", "a", "l">>],
       [domain |-> <<"g", "o", "o", "g", "l", "e", ".", "c", "o", "m">>,
         platform |-> <<"g", "o", "o", "g", "l", "e">>, medium |-> <<"s",
         "e", "a", "r", "c", "h">>],
       [domain |-> <<"w", "w", "w", ".", "g", "o", "o", "g", "l", "e", ".",
         "c", "o", "m">>, platform |-> <<"g", "o", "o", "g", "l", "e">>,
         medium |-> <<"s", "e", "a", "r", "c", "h">>],
       [domain |-> <<"g", "o", "o", "g", "l", "e", ".", "c", "o", ".", "u",
         "k">>, platform |-> <<"g", "o", "o", "g", "l", "e">>,
         medium |-> <<"s", "e", "a", "r", "c", "h">>],
       [domain |-> <<"g", "o", "o", "g", "l", "e", ".", "c", "a">>,
         platform |-> <<"g", "o", "o", "g", "l", "e">>, medium |-> <<"s",
         "e", "a", "r", "c", "h">>],
       [domain |-> <<"b", "i", "n", "g", ".", "c", "o", "m">>,
         platform |-> <<"b", "i", "n", "g">>, medium |-> <<"s", "e", "a",
         "r", "c", "h">>],
       [domain |-> <<"w", "w", "w", ".", "b", "i", "n", "g", ".", "c", "o",
         "m">>, platform |-> <<"b", "i", "n", "g">>, medium |-> <<"s", "e",
         "a", "r", "c", "h">>],
       [domain |-> <<"d", "u", "c", "k", "d", "u", "c", "k", "g", "o", ".",
         "c", "o", "m">>, platform |-> <<"d", "u", "c", "k", "d", "u", "c",
         "k", "g", "o">>, medium |-> <<"s", "e", "a", "r", "c", "h">>],
       [domain |-> <<"y", "a", "h", "o", "o", ".", "c", "o", "m">>,
         platform |-> <<"y", "a", "h", "o", "o">>, medium |-> <<"s", "e",
         "a", "r", "c", "h">>],
       [domain |-> <<"s", "e", "a", "r", "c", "h", ".", "y", "a", "h", "o",
         "o", ".", "c", "o", "m">>, platform |-> <<"y", "a", "h", "o", "o">>,
         medium |-> <<"s", "e", "a", "r", "c", "h">>],
       [domain |-> <<"b", "a", "i", "d", "u", ".", "c", "o", "m">>,
         platform |-> <<"b", "a", "i", "d", "u">>, medium |-> <<"s", "e",
         "a", "r", "c", "h">>],
       [domain |-> <<"w", "w", "w", ".", "b", "a", "i", "d", "u", ".", "c",
         "o", "m">>, platform |-> <<"b", "a", "i", "d", "u">>,
         medium |-> <<"s", "e", "a", "r", "c", "h">>],
       [domain |-> <<"y", "a", "n", "d", "e", "x", ".", "c", "o", "m">>,
         platform |-> <<"y", "a", "n", "d", "e", "x">>, medium |-> <<"s",
         "e", "a", "r", "c", "h">>],
       [domain |-> <<"t", ".", "m", "e">>, platform |-> <<"t", "e", "l", "e",
         "g", "r", "a", "m">>, medium |-> <<"m", "e", "s", "s", "a", "g",
         "i", "n", "g">>],
       [domain |-> <<"w", "e", "b", ".", "t", "e", "l", "e", "g", "r", "a",
         "m", ".", "o", "r", "g">>, platform |-> <<"t", "e", "l", "e", "g",
         "r", "a", "m">>, medium |-> <<"m", "e", "s", "s", "a", "g", "i",
         "n", "g">>],
       [domain |-> <<"w", "a", ".", "m", "e">>, platform |-> <<"w", "h", "a",
         "t", "s", "a", "p", "p">>, medium |-> <<"m", "e", "s", "s", "a",
         "g", "i", "n", "g">>],
       [domain |-> <<"w", "e", "b", ".", "w", "h", "a", "t", "s", "a", "p",
         "p", ".", "c", "o", "m">>, platform |-> <<"w", "h", "a", "t", "s",
         "a", "p", "p">>, medium |-> <<"m", "e", "s", "s", "a", "g", "i",
         "n", "g">>],
       [domain |-> <<"d", "i", "s", "c", "o", "r", "d", ".", "c", "o", "m">>,
         platform |-> <<"d", "i", "s", "c", "o", "r", "d">>,
         medium |-> <<"m", "e", "s", "s", "a", "g", "i", "n", "g">>],
       [domain |-> <<"d", "i", "s", "c", "o", "r", "d", "a", "p", "p", ".",
         "c", "o", "m">>, platform |-> <<"d", "i", "s", "c", "o", "r", "d">>,
         medium |-> <<"m", "e", "s", "s", "a", "g", "i", "n", "g">>],
       [domain |-> <<"m", "a", "i", "l", ".", "g", "o", "o", "g", "l", "e",
         ".", "c", "o", "m">>, platform |-> <<"g", "m", "a", "i", "l">>,
         medium |-> <<"e", "m", "a", "i", "l">>],
       [domain |-> <<"o", "u", "t", "l", "o", "o", "k", ".", "l", "i", "v",
         "e", ".", "c", "o", "m">>, platform |-> <<"o", "u", "t", "l", "o",
         "o", "k">>, medium |-> <<"e", "m", "a", "i", "l">>],
       [domain |-> <<"o", "u", "t", "l", "o", "o", "k", ".", "o", "f", "f",
         "i", "c", "e", ".", "c", "o", "m">>, platform |-> <<"o", "u", "t",
         "l", "o", "o", "k">>, medium |-> <<"e", "m", "a", "i", "l">>],
       [domain |-> <<"o", "u", "t", "l", "o", "o", "k", ".", "o", "f", "f",
         "i", "c", "e", "3", "6", "5", ".", "c", "o", "m">>,
         platform |-> <<"o", "u", "t", "l", "o", "o", "k">>,
         medium |-> <<"e", "m", "a", "i", "l">>],
       [domain |-> <<"m", "a", "i", "l", ".", "y", "a", "h", "o", "o", ".",
         "c", "o", "m">>, platform |-> <<"y", "a", "h", "o", "o", "_", "m",
         "a", "i", "l">>, medium |-> <<"e", "m", "a", "i", "l">>],
       [domain |-> <<"m", "a", "i", "l", ".", "a", "o", "l", ".", "c", "o",
         "m">>, platform |-> <<"a", "o", "l", "_", "m", "a", "i", "l">>,
         medium |-> <<"e", "m", "a", "i", "l">>],
       [domain |-> <<"m", "a", "i", "l", ".", "p", "r", "o", "t", "o", "n",
         "m", "a", "i", "l", ".", "c", "o", "m">>, platform |-> <<"p", "r",
         "o", "t", "o", "n", "m", "a", "i", "l">>, medium |-> <<"e", "m",
         "a", "i", "l">>],
       [domain |-> <<"a", "p", "p", ".", "m", "a", "i", "l", "s", "p", "r",
         "i", "n", "g", ".", "c", "o", "m">>, platform |-> <<"m", "a", "i",
         "l", "s", "p", "r", "i", "n", "g">>, medium |-> <<"e", "m", "a",
         "i", "l">>],
       [domain |-> <<"b", "i", "t", ".", "l", "y">>, platform |-> <<"b", "i",
         "t", "l", "y">>, medium |-> <<"r", "e", "f", "e", "r", "r", "a",
         "l">>],
       [domain |-> <<"t", "i", "n", "y", "u", "r", "l", ".", "c", "o", "m">>,
         platform |-> <<"t", "i", "n", "y", "u", "r", "l">>,
         medium |-> <<"r", "e", "f", "e", "r", "r", "a", "l">>],
       [domain |-> <<"l", "i", "n", "k", "t", "r", ".", "e", "e">>,
         platform |-> <<"l", "i", "n", "k", "t", "r", "e", "e">>,
         medium |-> <<"r", "e", "f", "e", "r", "r", "a", "l">>],
       [domain |-> <<"b", "e", "a", "c", "o", "n", "s", ".", "a", "i">>,
         platform |-> <<"b", "e", "a", "c", "o", "n", "s">>,
         medium |-> <<"r", "e", "f", "e", "r", "r", "a", "l">>],
       [domain |-> <<"s", "t", "a", "n", ".", "s", "t", "o", "r", "e">>,
         platform |-> <<"s", "t", "a", "n", "_", "s", "t", "o", "r", "e">>,
         medium |-> <<"r", "e", "f", "e", "r", "r", "a", "l">>],
       [domain |-> <<"h", "o", "o", ".", "b", "e">>, platform |-> <<"h", "o",
         "o", "b", "e">>, medium |-> <<"r", "e", "f", "e", "r", "r", "a",
         "l">>],
       [domain |-> <<"s", "n", "i", "p", "f", "e", "e", "d", ".", "c", "o">>,
         platform |-> <<"s", "n", "i", "p", "f", "e", "e", "d">>,
         medium |-> <<"r", "e", "f", "e", "r", "r", "a", "l">>],
       [domain |-> <<"c", "a", "m", "p", "s", "i", "t", "e", ".", "b", "i",
         "o">>, platform |-> <<"c", "a", "m", "p", "s", "i", "t", "e">>,
         medium |-> <<"r", "e", "f", "e", "r", "r", "a", "l">>],
       [domain |-> <<"t", "a", "p", ".", "b", "i", "o">>, platform |-> <<"t",
         "a", "p", "b", "i", "o">>, medium |-> <<"r", "e", "f", "e", "r",
         "r", "a", "l">>],
       [domain |-> <<"n", "e", "w", "s", ".", "y", "c", "o", "m", "b", "i",
         "n", "a", "t", "o", "r", ".", "c", "o", "m">>, platform |-> <<"h",
         "a", "c", "k", "e", "r", "n", "e", "w", "s">>, medium |-> <<"r",
         "e", "f", "e", "r", "r", "a", "l">>],
       [domain |-> <<"p", "r", "o", "d", "u", "c", "t", "h", "u", "n", "t",
         ".", "c", "o", "m">>, platform |-> <<"p", "r", "o", "d", "u", "c",
         "t", "h", "u", "n", "t">>, medium |-> <<"r", "e", "f", "e", "r",
         "r", "a", "l">>],
       [domain |-> <<"w", "w", "w", ".", "p", "r", "o", "d", "u", "c", "t",
         "h", "u", "n", "t", ".", "c", "o", "m">>, platform |-> <<"p", "r",
         "o", "d", "u", "c", "t", "h", "u", "n", "t">>, medium |-> <<"r",
         "e", "f", "e", "r", "r", "a", "l">>],
       [domain |-> <<"m", "e", "d", "i", "u", "m", ".", "c", "o", "m">>,
         platform |-> <<"m", "e", "d", "i", "u", "m">>, medium |-> <<"r",
         "e", "f", "e", "r", "r", "a", "l">>],
       [domain |-> <<"s", "u", "b", "s", "t", "a", "c", "k", ".", "c", "o",
         "m">>, platform |-> <<"s", "u", "b", "s", "t", "a", "c", "k">>,
         medium |-> <<"r", "e", "f", "e", "r", "r", "a", "l">>] >>

\* the least member of a non-empty set of table positions
First(hits) == CHOOSE i \in hits : \A k \in hits : i <= k

\* _detect_in_app_browser(ua): the first platform, in table order, one of
\* whose patterns is found in the user agent
_detect_in_app_browser(ua) ==
    IF ~Truthy(ua) THEN [found |-> FALSE, platform |-> Null]
    ELSE LET hits == {i \in 1..Len(IN_APP_PATTERNS) :
                         \E j \in 1..Len(IN_APP_PATTERNS[i].patterns) :
                             re_search(IN_APP_PATTERNS[i].patterns[j], ua)}
         IN  IF hits = {} THEN [found |-> FALSE, platform |-> Null]
             ELSE [found |-> TRUE, platform |-> IN_APP_PATTERNS[First(hits)].platform]

PAID     == <<"p", "a", "i", "d">>

NoSource == [platform |-> Null, medium |-> Null, detail |-> Null]

\* _detect_platform_click_ids(query_params): the first parameter of the
\* table, in table order, that the query carries with a non-empty value
_detect_platform_click_ids(query_params) ==
    LET hits == {i \in 1..Len(CLICK_ID_TO_PLATFORM) :
                     /\ CLICK_ID_TO_PLATFORM[i].param \in DOMAIN query_params
                     /\ query_params[CLICK_ID_TO_PLATFORM[i].param] # <<>>}
    IN  IF hits = {} THEN NoSource
        ELSE LET row == CLICK_ID_TO_PLATFORM[First(hits)]
             IN  [platform |-> row.platform, medium |-> row.medium,
                  detail |-> IF row.medium = PAID THEN PAID ELSE <<"c", "l", "i", "c", "k", "_", "i", "d">>]

REFERRAL     == <<"r", "e", "f", "e", "r", "r", "a", "l">>

\* _detect_utm_source(query_params)
_detect_utm_source(query_params) ==
    LET utm_source   == Lower(strip(Get(query_params, <<"u", "t", "m", "_", "s", "o", "u", "r", "c", "e">>)))
        utm_medium   == Lower(strip(Get(query_params, <<"u", "t", "m", "_", "m", "e", "d", "i", "u", "m">>)))
        utm_campaign == Lower(strip(Get(query_params, <<"u", "t", "m", "_", "c", "a", "m", "p", "a", "i", "g", "n">>)))
        detail       == IF utm_campaign # <<>> THEN utm_campaign ELSE Null
        hits         == {i \in 1..Len(UTM_SOURCE_MAP) :
                             UTM_SOURCE_MAP[i].source = utm_source}
    IN  IF utm_source = <<>> THEN NoSource
        ELSE IF hits # {}
        THEN LET row == UTM_SOURCE_MAP[First(hits)]
             IN  [platform |-> row.platform,
                  medium |-> IF utm_medium # <<>> THEN utm_medium ELSE row.medium,
                  detail |-> detail]
        ELSE [platform |-> utm_source,
              medium |-> IF utm_medium # <<>> THEN utm_medium ELSE REFERRAL,
              detail |-> detail]

UNKNOWN_EXTERNAL == <<"u", "n", "k", "n", "o", "w", "n", "_", "e", "x", "t", "e", "r", "n", "a", "l">>
SAME_SITE_HINT   == <<"s", "a", "m", "e", "_", "s", "i", "t", "e">>
SAME_ORIGIN_HINT == <<"s", "a", "m", "e", "_", "o", "r", "i", "g", "i", "n">>

\* _classify_sec_fetch(headers): (platform_hint, medium_hint)
_classify_sec_fetch(headers) ==
    LET sec_fetch_site == Lower(Get(headers, SEC_FETCH_SITE))
    IN  IF sec_fetch_site = <<"c", "r", "o", "s", "s", "-", "s", "i", "t", "e">>
        THEN [platform |-> UNKNOWN_EXTERNAL, medium |-> REFERRAL]
        ELSE IF sec_fetch_site = <<"s", "a", "m", "e", "-", "s", "i", "t", "e">>
        THEN [platform |-> SAME_SITE_HINT, medium |-> <<"i", "n", "t", "e", "r", "n", "a", "l">>]
        ELSE IF sec_fetch_site = <<"s", "a", "m", "e", "-", "o", "r", "i", "g", "i", "n">>
        THEN [platform |-> SAME_ORIGIN_HINT, medium |-> <<"i", "n", "t", "e", "r", "n", "a", "l">>]
        ELSE [platform |-> Null, medium |-> Null]

\* _detect_email_client(ua)
_detect_email_client(ua) ==
    IF ~Truthy(ua) THEN [found |-> FALSE, client |-> Null]
    ELSE LET hits == {i \in 1..Len(EMAIL_CLIENT_PATTERNS) :
                         \E j \in 1..Len(EMAIL_CLIENT_PATTERNS[i].patterns) :
                             re_search(EMAIL_CLIENT_PATTERNS[i].patterns[j], ua)}
         IN  IF hits = {} THEN [found |-> FALSE, client |-> Null]
             ELSE [found |-> TRUE, client |-> EMAIL_CLIENT_PATTERNS[First(hits)].client]

LowerSet    == Range(Lowers)
SchemeChars == LowerSet \cup UpperSet \cup DigitSet \cup {"+", "-", "."}

\* s.find: the position of the first character of s that is in chars,
\* Len(s) + 1 when there is none
FindAny(s, chars) ==
    IF \A i \in 1..Len(s) : s[i] \notin chars THEN Len(s) + 1
    ELSE CHOOSE i \in 1..Len(s) :
             s[i] \in chars /\ \A k \in 1..(i - 1) : s[k] \notin chars

\* the path of a URL that has lost its scheme and netloc: what stands before
\* the query and the fragment
PathOf(tail) == SubSeq(tail, 1, FindAny(tail, {"?", "#"}) - 1)

\* the parts of the parsed URL; ok is FALSE where urlparse raises ValueError
\* (a netloc with one square bracket and not the other)
ParseResult(netloc, path) ==
    [ok     |-> ("[" \in Range(netloc)) = ("]" \in Range(netloc)),
     netloc |-> netloc, path |-> path]

\* the netloc ends at the first "/", "?" or "#" behind the two slashes
SplitNetloc(after, netEnd) ==
    ParseResult(SubSeq(after, 1, netEnd - 1),
                PathOf(SubSeq(after, netEnd, Len(after))))

\* the URL behind its scheme: a letter, then scheme characters, up to the
\* first colon
AfterScheme(url, colon) ==
    IF /\ colon > 1 /\ colon <= Len(url)
       /\ url[1] \in LowerSet \cup UpperSet
       /\ \A i \in 1..(colon - 1) : url[i] \in SchemeChars
    THEN SubSeq(url, colon + 1, Len(url))
    ELSE url

\* netloc and path of the URL behind its scheme
SplitRest(rest) ==
    IF Len(rest) >= 2 /\ rest[1] = "/" /\ rest[2] = "/"
    THEN SplitNetloc(SubSeq(rest, 3, Len(rest)),
                     FindAny(SubSeq(rest, 3, Len(rest)), {"/", "?", "#"}))
    ELSE ParseResult(<<>>, PathOf(rest))

\* urllib.parse.urlparse(url), its netloc and path. The URLs of the model
\* carry no whitespace or control characters.
urlparse(url) == SplitRest(AfterScheme(url, FindAny(url, {":"})))

\* s.lstrip(chars): drops leading characters as long as they are in chars
RECURSIVE lstrip(_, _)
lstrip(s, chars) ==
    IF s # <<>> /\ s[1] \in chars THEN lstrip(Tail(s), chars) ELSE s

FEED           == <<"f", "e", "e", "d">>
SEARCH_ORGANIC == <<"s", "e", "a", "r", "c", "h", "_", "o", "r", "g", "a", "n", "i", "c">>


\* _extract_source_detail(platform, path)
_extract_source_detail(platform, path) ==
    LET path_lower == Lower(path)
        Has(t)     == Contains(path_lower, t)
    IN  IF path = <<>> THEN Null
        ELSE IF platform = <<"i", "n", "s", "t", "a", "g", "r", "a", "m">> THEN
            IF Has(<<"/", "s", "t", "o", "r", "i", "e", "s", "/">>) THEN <<"s", "t", "o", "r", "y">>
            ELSE IF Has(<<"/", "p", "/">>) THEN <<"p", "o", "s", "t">>
            ELSE IF Has(<<"/", "r", "e", "e", "l", "/">>) THEN <<"r", "e", "e", "l">>
            ELSE IF Has(<<"/", "d", "i", "r", "e", "c", "t", "/">>) THEN <<"d", "m">>
            ELSE IF path_lower \in {<<"/">>, <<>>} THEN <<"b", "i", "o">>
            ELSE FEED
        ELSE IF platform = <<"t", "i", "k", "t", "o", "k">> THEN
            IF Has(<<"/", "v", "i", "d", "e", "o", "/">>) \/ Has(<<"/", "@">>)
            THEN <<"v", "i", "d", "e", "o">> ELSE FEED
        ELSE IF platform = <<"y", "o", "u", "t", "u", "b", "e">> THEN
            IF Has(<<"/", "w", "a", "t", "c", "h">>) THEN <<"v", "i", "d", "e", "o">>
            ELSE IF Has(<<"/", "s", "h", "o", "r", "t", "s", "/">>) THEN <<"s", "h", "o", "r", "t">>
            ELSE IF Has(<<"/", "c", "h", "a", "n", "n", "e", "l", "/">>)
                    \/ Has(<<"/", "@">>) THEN <<"c", "h", "a", "n", "n", "e", "l">>
            ELSE FEED
        ELSE IF platform = <<"t", "w", "i", "t", "t", "e", "r">> THEN
            IF Has(<<"/", "s", "t", "a", "t", "u", "s", "/">>) THEN <<"t", "w", "e", "e", "t">>
            ELSE IF Has(<<"/", "m", "e", "s", "s", "a", "g", "e", "s">>) THEN <<"d", "m">>
            ELSE FEED
        ELSE IF platform = <<"f", "a", "c", "e", "b", "o", "o", "k">> THEN
            IF Has(<<"/", "m", "e", "s", "s", "a", "g", "e", "s">>)
               \/ Has(<<"/", "m", "s", "g">>) THEN <<"d", "m">>
            ELSE IF Has(<<"/", "g", "r", "o", "u", "p", "s", "/">>) THEN <<"g", "r", "o", "u", "p">>
            ELSE IF Has(<<"/", "p", "o", "s", "t", "s", "/">>) THEN <<"p", "o", "s", "t">>
            ELSE FEED
        ELSE IF platform \in {<<"g", "o", "o", "g", "l", "e">>, <<"b", "i", "n", "g">>, <<"d", "u", "c", "k", "d", "u", "c", "k", "g", "o">>, <<"y", "a", "h", "o", "o">>} THEN SEARCH_ORGANIC
        ELSE Null

DIRECT       == <<"d", "i", "r", "e", "c", "t">>
UNKNOWN      == <<"u", "n", "k", "n", "o", "w", "n">>
SOCIAL       == <<"s", "o", "c", "i", "a", "l">>
EMAIL        == <<"e", "m", "a", "i", "l">>
IN_APP       == <<"i", "n", "_", "a", "p", "p">>
LINK_SCANNER == <<"l", "i", "n", "k", "_", "s", "c", "a", "n", "n", "e", "r">>
NO_REFERRER  == <<"n", "o", "_", "r", "e", "f", "e", "r", "r", "e", "r">>
GOOGLE_DOT   == <<"g", "o", "o", "g", "l", "e", ".">>

\* re.match(r"google\.[a-z]{2,3}(\.[a-z]{2})?$", domain)
IsRegionalGoogle(domain) ==
    LET n == Len(GOOGLE_DOT)
    IN  /\ StartsWith(domain, GOOGLE_DOT)
        /\ \E t \in 2..3 :
            /\ Len(domain) >= n + t
            /\ \A i \in (n + 1)..(n + t) : domain[i] \in LowerSet
            /\ \/ Len(domain) = n + t
               \/ /\ Len(domain) = n + t + 3
                  /\ domain[n + t + 1] = "."
                  /\ domain[n + t + 2] \in LowerSet
                  /\ domain[n + t + 3] \in LowerSet

Referer(platform, medium, detail, domain, path) ==
    [platform |-> platform, medium |-> medium, detail |-> detail,
     domain |-> domain, path |-> path]

\* the rows of DOMAIN_TO_PLATFORM whose key is d
DomainRows(d) == {i \in 1..Len(DOMAIN_TO_PLATFORM) : DOMAIN_TO_PLATFORM[i].domain = d}

\* the rows of DOMAIN_TO_PLATFORM of which domain is a subdomain
SuffixRows(domain) ==
    {i \in 1..Len(DOMAIN_TO_PLATFORM) :
        \/ EndsWith(domain, <<".">> \o DOMAIN_TO_PLATFORM[i].domain)
        \/ domain = DOMAIN_TO_PLATFORM[i].domain}

\* the answer for a host found in row i of the table
Known(i, full_domain, path) ==
    Referer(DOMAIN_TO_PLATFORM[i].platform, DOMAIN_TO_PLATFORM[i].medium,
            _extract_source_detail(DOMAIN_TO_PLATFORM[i].platform, path),
            full_domain, path)

\* exact match of the host, then of the stripped host, then a subdomain, then
\* a regional Google domain
ClassifyHost(full_domain, domain, path) ==
    IF DomainRows(full_domain) # {}
    THEN Known(First(DomainRows(full_domain)), full_domain, path)
    ELSE IF DomainRows(domain) # {}
    THEN Known(First(DomainRows(domain)), full_domain, path)
    ELSE IF SuffixRows(domain) # {}
    THEN Known(First(SuffixRows(domain)), full_domain, path)
    ELSE IF IsRegionalGoogle(domain)
    THEN Referer(<<"g", "o", "o", "g", "l", "e">>, <<"s", "e", "a", "r", "c", "h">>,
                 SEARCH_ORGANIC, full_domain, path)
    ELSE Referer(UNKNOWN, REFERRAL, Null, full_domain, path)

\* the Referer once parsed
ClassifyParsed(parsed) ==
    IF ~parsed.ok THEN Referer(UNKNOWN, REFERRAL, Null, Null, Null)
    ELSE ClassifyHost(Lower(parsed.netloc),
                      lstrip(Lower(parsed.netloc), {"w", "."}), parsed.path)

\* _classify_referer(referer): (platform, medium, detail, domain, path)
_classify_referer(referer) ==
    IF ~Truthy(referer) THEN Referer(DIRECT, DIRECT, Null, Null, Null)
    ELSE ClassifyParsed(urlparse(referer))

\* _parse_accept_language(header): (language, locale)
_parse_accept_language(header) ==
    IF ~Truthy(header) THEN [language |-> Null, locale |-> Null]
    ELSE LET first == strip(split(strip(split(header, ",")[1]), ";")[1])
             parts == split(first, "-")
         IN  [language |-> Lower(parts[1]),
              locale   |-> IF Len(parts) > 1 THEN first ELSE Null]

\* _parse_device_from_ua(ua_string): parsed is what user_agents.parse makes of
\* the user agent (its device class and whether it counts as mobile)
_parse_device_from_ua(ua_string, parsed) ==
    IF ~Truthy(ua_string) THEN [device_class |-> "unknown", is_mobile |-> FALSE]
    ELSE [device_class |-> parsed, is_mobile |-> parsed \in {"mobile", "tablet"}]

\* ClickIntelligence(): the defaults of the dataclass
ClickIntelligence ==
    [source_platform |-> DIRECT, source_medium |-> DIRECT, source_detail |-> Null,
     is_in_app_browser |-> FALSE, in_app_platform |-> Null,
     device_class |-> "unknown", is_mobile |-> FALSE,
     language |-> Null, locale |-> Null,
     referer_domain |-> Null, referer_path |-> Null, referer_full |-> Null]

\* the merge: st is the intel so far and the flag resolved
Resolve(st, platform, medium, detail) ==
    [intel |-> [st.intel EXCEPT !.source_platform = platform,
                                !.source_medium = medium,
                                !.source_detail = detail],
     resolved |-> TRUE]

\* Priority 1: in-app browser
Priority1(st, in_app, ref) ==
    IF in_app.found /\ Truthy(in_app.platform)
    THEN Resolve(st, in_app.platform, SOCIAL,
                 IF Truthy(ref.detail) THEN ref.detail ELSE IN_APP)
    ELSE st

\* (mutant) the Referer stage without its "not resolved" guard
Priority2_unguarded(st, ref) ==
    IF ref.platform # DIRECT
    THEN Resolve(st, ref.platform, ref.medium, ref.detail)
    ELSE st

\* (mutant) the Referer stage for recognized domains only
Priority2_known_only(st, ref) ==
    IF ~st.resolved /\ ref.platform # DIRECT /\ ref.platform # UNKNOWN
    THEN Resolve(st, ref.platform, ref.medium, ref.detail)
    ELSE st

\* Priority 2: Referer header (if not "direct")
Priority2(st, ref) ==
    IF ~st.resolved /\ ref.platform # DIRECT
    THEN Resolve(st, ref.platform, ref.medium, ref.detail)
    ELSE st

\* (mutant) no click-ID stage
Priority3_skipped(st, clickid) == st

\* Priority 3: platform click IDs
Priority3(st, clickid) ==
    IF ~st.resolved /\ Truthy(clickid.platform)
    THEN Resolve(st, clickid.platform, clickid.medium, clickid.detail)
    ELSE st

\* Priority 4: UTM params
Priority4(st, utm) ==
    IF ~st.resolved /\ Truthy(utm.platform)
    THEN Resolve(st, utm.platform, utm.medium, utm.detail)
    ELSE st

\* Priority 5: email client UA
Priority5(st, email) ==
    IF ~st.resolved /\ email.found
    THEN Resolve(st, email.client, EMAIL, LINK_SCANNER)
    ELSE st

\* Priority 6: sec-fetch-site
Priority6(st, sec) ==
    IF /\ ~st.resolved /\ Truthy(sec.platform)
       /\ sec.platform # SAME_ORIGIN_HINT /\ sec.platform # SAME_SITE_HINT
    THEN Resolve(st, sec.platform, sec.medium, NO_REFERRER)
    ELSE st

\* Priority 7 (last resort): direct
Priority7(st) ==
    IF ~st.resolved
    THEN [st EXCEPT !.intel.source_platform = DIRECT,
                    !.intel.source_medium = DIRECT,
                    !.intel.source_detail = Null]
    ELSE st

\* the enrichment after the cascade: a source resolved from sec-fetch is
\* upgraded when there are click IDs
Overlay(intel_, clickid) ==
    IF intel_.source_platform = UNKNOWN_EXTERNAL /\ Truthy(clickid.platform)
    THEN [intel_ EXCEPT !.source_platform = clickid.platform,
                        !.source_medium = clickid.medium]
    ELSE intel_

\* the priority cascade of analyze_click: the intel before the enrichment
Cascade(user_agent, referer, headers, query_params) ==
    LET in_app  == _detect_in_app_browser(user_agent)
        ref     == _classify_referer(referer)
        clickid == _detect_platform_click_ids(query_params)
        utm     == _detect_utm_source(query_params)
        email   == _detect_email_client(user_agent)
        sec     == _classify_sec_fetch(headers)
        new     == [ClickIntelligence EXCEPT
                       !.is_in_app_browser = in_app.found,
                       !.in_app_platform = in_app.platform,
                       !.referer_domain = ref.domain,
                       !.referer_path = ref.path,
                       !.referer_full = referer]
    IN  Priority7(Priority6(Priority5(Priority4(Priority3(Priority2(
            Priority1([intel |-> new, resolved |-> FALSE], in_app, ref),
            ref), clickid), utm), email), sec)).intel

\* analyze_click(user_agent, referer, accept_language, headers, query_params);
\* parsed_device is the answer of the user_agents library for the user agent
analyze_click(user_agent, referer, accept_language, headers, query_params, parsed_device) ==
    LET clickid == _detect_platform_click_ids(query_params)
        device  == _parse_device_from_ua(user_agent, parsed_device)
        lang    == _parse_accept_language(accept_language)
    IN  [Overlay(Cascade(user_agent, referer, headers, query_params), clickid) EXCEPT
            !.device_class = device.device_class,
            !.is_mobile = device.is_mobile,
            !.language = lang.language,
            !.locale = lang.locale]

\* User-Agent values: none, a browser, in-app browsers, mail clients
ClickUserAgents ==
    { Null,
      <<"M", "o", "z", "i", "l", "l", "a", "/", "5", ".", "0">>,
      <<"M", "o", "z", "i", "l", "l", "a", "/", "5", ".", "0", " ", "I", "n",
        "s", "t", "a", "g", "r", "a", "m", " ", "1", ".", "0">>,
      <<"M", "o", "z", "i", "l", "l", "a", "/", "5", ".", "0", " ", "[", "F",
        "B", "_", "I", "A", "B", "/", "F", "B", "4", "A", "]">>,
      <<"m", "u", "s", "i", "c", "a", "l", "_", "l", "y", " ", "T", "w", "i",
        "t", "t", "e", "r", "A", "n", "d", "r", "o", "i", "d">>,
      <<"G", "o", "o", "g", "l", "e", "b", "o", "t", "/", "2">>,
      <<"O", "u", "t", "l", "o", "o", "k", " ", "T", "e", "l", "e", "g", "r",
        "a", "m">> }

\* Referer values: none, known and unknown hosts, without a scheme, malformed
Referers ==
    { Null,
      <<"h", "t", "t", "p", "s", ":", "/", "/", "w", "w", "w", ".", "i", "n",
        "s", "t", "a", "g", "r", "a", "m", ".", "c", "o", "m", "/", "p", "/",
        "1">>,
      <<"h", "t", "t", "p", "s", ":", "/", "/", "l", ".", "i", "n", "s", "t",
        "a", "g", "r", "a", "m", ".", "c", "o", "m", "/">>,
      <<"h", "t", "t", "p", "s", ":", "/", "/", "w", "w", "w", ".", "t", "i",
        "k", "t", "o", "k", ".", "c", "o", "m", "/", "@", "a", "/", "v", "i",
        "d", "e", "o", "/", "1">>,
      <<"h", "t", "t", "p", "s", ":", "/", "/", "m", ".", "y", "o", "u", "t",
        "u", "b", "e", ".", "c", "o", "m", "/", "w", "a", "t", "c", "h", "?",
        "v", "=", "1">>,
      <<"h", "t", "t", "p", "s", ":", "/", "/", "w", "w", "w", ".", "w", "a",
        ".", "m", "e", "/", "x">>,
      <<"h", "t", "t", "p", "s", ":", "/", "/", "w", "e", "b", ".", "t", "e",
        "l", "e", "g", "r", "a", "m", ".", "o", "r", "g">>,
      <<"h", "t", "t", "p", "s", ":", "/", "/", "g", "o", "o", "g", "l", "e",
        ".", "d", "e", "/", "s", "e", "a", "r", "c", "h">>,
      <<"h", "t", "t", "p", "s", ":", "/", "/", "E", "x", "a", "m", "p", "l",
        "e", ".", "c", "o", "m", "/", "a">>,
      <<"i", "n", "s", "t", "a", "g", "r", "a", "m", ".", "c", "o", "m", "/",
        "p", "/", "1">>,
      <<"h", "t", "t", "p", ":", "/", "/", "[", "x", "/">>,
      <<"h", "t", "t", "p", "s", ":", "/", "/", "m", "a", "i", "l", ".", "g",
        "o", "o", "g", "l", "e", ".", "c", "o", "m", "/", "m", "a", "i", "l",
        "#", "i", "n", "b", "o", "x">> }

\* query parameters: none, click IDs (one of them empty), utm parameters (one
\* of them utm_source=Direct)
QueryDicts ==
    { <<>>,
      (<<"f", "b", "c", "l", "i", "d">> :> <<"1">>),
      (<<"g", "c", "l", "i", "d">> :> <<"1">>) @@ (<<"f", "b", "c", "l", "i",
        "d">> :> <<"1">>),
      (<<"f", "b", "c", "l", "i", "d">> :> <<>>),
      (<<"u", "t", "m", "_", "s", "o", "u", "r", "c", "e">> :> <<" ", "I",
        "G", " ">>) @@ (<<"u", "t", "m", "_", "m", "e", "d", "i", "u",
        "m">> :> <<"C", "P", "C">>),
      (<<"u", "t", "m", "_", "s", "o", "u", "r", "c", "e">> :> <<"u", "n",
        "k", "n", "o", "w", "n", "_", "e", "x", "t", "e", "r", "n", "a",
        "l">>) @@ (<<"u", "t", "m", "_", "c", "a", "m", "p", "a", "i", "g",
        "n">> :> <<"c", "1">>),
      (<<"f", "b", "c", "l", "i", "d">> :> <<"1">>) @@ (<<"u", "t", "m", "_",
        "s", "o", "u", "r", "c", "e">> :> <<"t", "t">>),
      (<<"u", "t", "m", "_", "s", "o", "u", "r", "c", "e">> :> <<"D", "i", "r",
        "e", "c", "t">>) }

\* request headers (lower-case names)
SecFetchDicts ==
    { <<>>,
      (<<"s", "e", "c", "-", "f", "e", "t", "c", "h", "-", "s", "i", "t",
        "e">> :> <<"c", "r", "o", "s", "s", "-", "s", "i", "t", "e">>),
      (<<"s", "e", "c", "-", "f", "e", "t", "c", "h", "-", "s", "i", "t",
        "e">> :> <<"s", "a", "m", "e", "-", "o", "r", "i", "g", "i", "n">>),
      (<<"s", "e", "c", "-", "f", "e", "t", "c", "h", "-", "s", "i", "t",
        "e">> :> <<"n", "o", "n", "e">>) }

\* Accept-Language values
AcceptLanguages ==
    { Null,
      <<"e", "n", "-", "U", "S", ",", "e", "n", ";", "q", "=", "0", ".",
        "9">> }

\* what user_agents.parse can make of a user agent
ParsedDevices == {"mobile", "desktop"}

ClickRequests ==
    [user_agent : ClickUserAgents, referer : Referers,
     accept_language : AcceptLanguages, headers : SecFetchDicts,
     query_params : QueryDicts, parsed_device : ParsedDevices]

NoIntel == [ClickIntelligence EXCEPT !.device_class = "-"]

Analyze(r) ==
    analyze_click(r.user_agent, r.referer, r.accept_language, r.headers,
                  r.query_params, r.parsed_device)

InitClassify ==
    /\ creq \in ClickRequests
    /\ intel = NoIntel
    /\ clock = StartClock
    /\ minted = <<>>
    /\ last = NoCall
    /\ memory = <<>>
    /\ events = <<>>
    /\ response = NoResponse
    /\ sreq = "idle"
    /\ verdict = "idle"
    /\ preq = "idle"
    /\ pres = "idle"
    /\ dedupe = <<>>
    /\ pc = "idle"

\* one call of analyze_click
AnalyzeClick ==
    /\ intel = NoIntel
    /\ intel' = Analyze(creq)
    /\ UNCHANGED <<creq, codecVars, eventVars, scoreVars, paramVars, flowVars>>

NextClassify == AnalyzeClick

SpecClassify == InitClassify /\ [][NextClassify]_vars

-----------------------------------------------------------------------------
(* Properties of analyze_click *)

HasIntel == intel # NoIntel

Triple(i) == <<i.source_platform, i.source_medium, i.source_detail>>

\* what each detector finds in each input of the model
InAppOf   == [u \in ClickUserAgents |-> _detect_in_app_browser(u)]
RefOf     == [f \in Referers |-> _classify_referer(f)]
ClickIdOf == [q \in QueryDicts |-> _detect_platform_click_ids(q)]
UtmOf     == [q \in QueryDicts |-> _detect_utm_source(q)]
EmailOf   == [u \in ClickUserAgents |-> _detect_email_client(u)]
SecOf     == [h \in SecFetchDicts |-> _classify_sec_fetch(h)]

\* the triple analyze_click returns for each combination of user agent,
\* Referer, query parameters and headers
TripleOf ==
    [u \in ClickUserAgents |-> [f \in Referers |-> [q \in QueryDicts |->
        [h \in SecFetchDicts |->
            Triple(analyze_click(u, f, Null, h, q, "desktop"))]]]]

TripleFor(r) == TripleOf[r.user_agent][r.referer][r.query_params][r.headers]

\* the signal stage k looks at
Signal(k, r) ==
    CASE k = 1 -> InAppOf[r.user_agent]
      [] k = 2 -> <<r.referer>>
      [] k = 3 -> ClickIdOf[r.query_params]
      [] k = 4 -> UtmOf[r.query_params]
      [] k = 5 -> EmailOf[r.user_agent]
      [] k = 6 -> SecOf[r.headers]
      [] OTHER -> <<>>

\* stage k resolves: in-app user agent, Referer, click-ID parameter,
\* utm_source, email-client user agent, Sec-Fetch-Site cross-site, fallback
Resolves(k, r) ==
    CASE k = 1 -> InAppOf[r.user_agent].found
      [] k = 2 -> Truthy(r.referer)
      [] k = 3 -> ClickIdOf[r.query_params].platform # Null
      [] k = 4 -> UtmOf[r.query_params].platform # Null
      [] k = 5 -> EmailOf[r.user_agent].found
      [] k = 6 -> SecOf[r.headers].platform = UNKNOWN_EXTERNAL
      [] OTHER -> TRUE

\* the first stage that resolves
Stage(r) == First({k \in 1..7 : Resolves(k, r)})

\* the triple stage k produces
StageTriple(k, r) ==
    LET ref == RefOf[r.referer]
        cid == ClickIdOf[r.query_params]
        utm == UtmOf[r.query_params]
        sec == SecOf[r.headers]
    IN  CASE k = 1 -> <<InAppOf[r.user_agent].platform, SOCIAL,
                        IF ref.detail # Null THEN ref.detail ELSE IN_APP>>
          [] k = 2 -> <<ref.platform, ref.medium, ref.detail>>
          [] k = 3 -> <<cid.platform, cid.medium, cid.detail>>
          [] k = 4 -> <<utm.platform, utm.medium, utm.detail>>
          [] k = 5 -> <<EmailOf[r.user_agent].client, EMAIL, LINK_SCANNER>>
          [] k = 6 -> <<sec.platform, sec.medium, NO_REFERRER>>
          [] OTHER -> <<DIRECT, DIRECT, Null>>

\* the requests that differ from r in one input
Variants(r) ==
    {[r EXCEPT !.user_agent = u] : u \in ClickUserAgents}
        \cup {[r EXCEPT !.referer = f] : f \in Referers}
        \cup {[r EXCEPT !.query_params = q] : q \in QueryDicts}
        \cup {[r EXCEPT !.headers = h] : h \in SecFetchDicts}

\* r2 differs from r in signals of a lower priority than stage k only
LowerOnly(k, r, r2) == \A j \in 1..k : Signal(j, r2) = Signal(j, r)

\* C10 (as claimed): strict priority cascade. The triple analyze_click returns
\* is the one of the first stage that resolves, and a signal of a lower
\* priority never changes the result of the stage that resolved.
C10_StrictCascade ==
    HasIntel =>
        /\ Triple(intel) = StageTriple(Stage(creq), creq)
        /\ \A r2 \in Variants(creq) :
               LowerOnly(Stage(creq), creq, r2) => TripleFor(r2) = Triple(intel)

\* C10 (amended): the triple analyze_click returns is the one of the first
\* stage that resolves. A signal of a lower priority never changes
\* source_platform or source_medium of the stage that resolved, nor its
\* source_detail, except that the in-app stage takes source_detail from the
\* placement found in the Referer when there is one ("in_app" otherwise).
C10_CascadeUpToPlacement ==
    HasIntel =>
        /\ Triple(intel) = StageTriple(Stage(creq), creq)
        /\ \A r2 \in Variants(creq) :
               LowerOnly(Stage(creq), creq, r2) =>
                   /\ TripleFor(r2)[1] = intel.source_platform
                   /\ TripleFor(r2)[2] = intel.source_medium
                   /\ (Stage(creq) # 1
                         \/ RefOf[r2.referer].detail = RefOf[creq.referer].detail)
                       => TripleFor(r2)[3] = intel.source_detail

\* an in-app user agent resolved the click although the Referer names another
\* platform and the query carries a click ID; the detail is the Referer's
C10_Witness ==
    /\ HasIntel
    /\ Stage(creq) = 1
    /\ RefOf[creq.referer].detail # Null
    /\ RefOf[creq.referer].platform # intel.source_platform
    /\ ClickIdOf[creq.query_params].platform # Null
    /\ intel.source_platform = InAppOf[creq.user_agent].platform
    /\ intel.source_detail = RefOf[creq.referer].detail

\* the query carries a click-ID parameter of the table, or a utm_source; an
\* empty value counts as no parameter
HasClickIdParam(q) ==
    \E i \in 1..Len(CLICK_ID_TO_PLATFORM) :
        /\ CLICK_ID_TO_PLATFORM[i].param \in DOMAIN q
        /\ q[CLICK_ID_TO_PLATFORM[i].param] # <<>>

HasUtmSource(q) == <<"u", "t", "m", "_", "s", "o", "u", "r", "c", "e">> \in DOMAIN q /\ strip(q[<<"u", "t", "m", "_", "s", "o", "u", "r", "c", "e">>]) # <<>>

\* Sec-Fetch-Site is cross-site
IsCrossSite(h) == Lower(Get(h, SEC_FETCH_SITE)) = <<"c", "r", "o", "s", "s", "-", "s", "i", "t", "e">>

\* one of the six signals is there
AnySignal(r) ==
    \/ InAppOf[r.user_agent].found
    \/ Truthy(r.referer)
    \/ HasClickIdParam(r.query_params)
    \/ HasUtmSource(r.query_params)
    \/ EmailOf[r.user_agent].found
    \/ IsCrossSite(r.headers)

\* C26: source_platform is "direct" only when no in-app user agent matched,
\* there is no Referer, no click-ID parameter and no utm_source in the query,
\* no email-client user agent matched and Sec-Fetch-Site is not cross-site;
\* with any of these signals the platform is not "direct".
C26_DirectIsLastResort ==
    HasIntel /\ AnySignal(creq) => intel.source_platform # DIRECT

\* the same for the requests whose utm_source is not the word "direct"
C26_UnlessUtmSaysDirect ==
    HasIntel /\ AnySignal(creq) /\ UtmOf[creq.query_params].platform # DIRECT
        => intel.source_platform # DIRECT

\* the intel of the request before the enrichment
Interim == Cascade(creq.user_agent, creq.referer, creq.headers, creq.query_params)

\* C29: whenever a click-ID parameter is detected the source_platform the
\* cascade leaves is not "unknown_external", so the enrichment after the
\* cascade changes nothing: the triple returned is the cascade's.
C29_OverlayNeverChanges ==
    HasIntel =>
        /\ ClickIdOf[creq.query_params].platform # Null
               => Interim.source_platform # UNKNOWN_EXTERNAL
        /\ Triple(intel) = Triple(Interim)

\* a click-ID parameter and Sec-Fetch-Site cross-site, and nothing of a
\* higher priority: the click ID resolved the click
C29_Witness ==
    /\ HasIntel
    /\ ClickIdOf[creq.query_params].platform # Null
    /\ SecOf[creq.headers].platform = UNKNOWN_EXTERNAL
    /\ ~InAppOf[creq.user_agent].found /\ ~Truthy(creq.referer)
    /\ Triple(intel) = <<ClickIdOf[creq.query_params].platform,
                         ClickIdOf[creq.query_params].medium,
                         ClickIdOf[creq.query_params].detail>>

\* the triple of the Referer classification
RefererTriple(ref) == <<ref.platform, ref.medium, ref.detail>>

\* C30: with a non-empty Referer and no in-app user agent the triple is the
\* one of the Referer classification, (unknown, referral, null) for an
\* unrecognized domain included; click-ID parameters, utm parameters, an
\* email-client user agent and Sec-Fetch-Site do not change it.
C30_RefererDecides ==
    HasIntel /\ Truthy(creq.referer) /\ ~InAppOf[creq.user_agent].found =>
        /\ Triple(intel) = RefererTriple(RefOf[creq.referer])
        /\ \A r2 \in Variants(creq) :
               r2.referer = creq.referer /\ ~InAppOf[r2.user_agent].found
                   => TripleFor(r2) = Triple(intel)

\* a Referer on an unrecognized domain, with a click-ID parameter, an
\* email-client user agent and Sec-Fetch-Site cross-site
C30_Witness ==
    /\ HasIntel
    /\ Truthy(creq.referer) /\ ~InAppOf[creq.user_agent].found
    /\ ClickIdOf[creq.query_params].platform # Null
    /\ EmailOf[creq.user_agent].found
    /\ SecOf[creq.headers].platform = UNKNOWN_EXTERNAL
    /\ Triple(intel) = <<UNKNOWN, REFERRAL, Null>>

-----------------------------------------------------------------------------
(* Calls of _classify_referer *)

\* a host of the table, as it is, behind "www." and as another subdomain
HostPrefixes == {<<>>, <<"w", "w", "w", ".">>, <<"m", ".">>}

\* hosts the table has not: unknown sites and regional Google domains
OtherHosts ==
    { <<"e", "x", "a", "m", "p", "l", "e", ".", "c", "o", "m">>,
      <<"w", "w", "w", ".", "e", "x", "a", "m", "p", "l", "e", ".", "c", "o",
        "m">>,
      <<"g", "o", "o", "g", "l", "e", ".", "d", "e">>,
      <<"w", "w", "w", ".", "g", "o", "o", "g", "l", "e", ".", "c", "o", ".", "u",
        "k">>,
      <<"g", "o", "o", "g", "l", "e", ".", "d", "e", "v">>,
      <<"n", "o", "t", "g", "o", "o", "g", "l", "e", ".", "d", "e">>,
      <<"w", "a", ".", "m", "e", ".", "e", "x", "a", "m", "p", "l", "e", ".", "c",
        "o", "m">> }

RefererHosts ==
    {p \o DOMAIN_TO_PLATFORM[i].domain : p \in HostPrefixes, i \in 1..Len(DOMAIN_TO_PLATFORM)}
        \cup OtherHosts

\* paths: none, the root, the placements of the five social platforms, two
\* placements at once, upper case
RefererPaths ==
    { <<>>,
      <<"/">>,
      <<"/", "x">>,
      <<"/", "s", "t", "o", "r", "i", "e", "s", "/", "a", "/", "1">>,
      <<"/", "p", "/", "1">>,
      <<"/", "r", "e", "e", "l", "/", "1">>,
      <<"/", "d", "i", "r", "e", "c", "t", "/", "t", "/", "1">>,
      <<"/", "p", "/", "1", "/", "s", "t", "o", "r", "i", "e", "s", "/">>,
      <<"/", "r", "e", "e", "l", "/", "1", "/", "d", "i", "r", "e", "c", "t",
        "/">>,
      <<"/", "P", "/", "1">>,
      <<"/", "@", "a", "/", "v", "i", "d", "e", "o", "/", "1">>,
      <<"/", "@", "a">>,
      <<"/", "w", "a", "t", "c", "h">>,
      <<"/", "s", "h", "o", "r", "t", "s", "/", "1">>,
      <<"/", "c", "h", "a", "n", "n", "e", "l", "/", "c">>,
      <<"/", "s", "h", "o", "r", "t", "s", "/", "w", "a", "t", "c", "h">>,
      <<"/", "s", "t", "a", "t", "u", "s", "/", "1">>,
      <<"/", "m", "e", "s", "s", "a", "g", "e", "s">>,
      <<"/", "a", "/", "s", "t", "a", "t", "u", "s", "/", "1", "/", "m", "e", "s",
        "s", "a", "g", "e", "s">>,
      <<"/", "m", "s", "g">>,
      <<"/", "g", "r", "o", "u", "p", "s", "/", "1">>,
      <<"/", "p", "o", "s", "t", "s", "/", "1">>,
      <<"/", "g", "r", "o", "u", "p", "s", "/", "1", "/", "p", "o", "s", "t", "s",
        "/", "2">>,
      <<"/", "s", "e", "a", "r", "c", "h">> }

RefererRequests == [host : RefererHosts, path : RefererPaths]

\* the Referer header of the request
RefererOf(r) == <<"h", "t", "t", "p", "s", ":", "/", "/">> \o r.host \o r.path

NoReferer == [platform |-> "-"]

InitReferer ==
    /\ creq \in RefererRequests
    /\ intel = NoReferer
    /\ clock = StartClock
    /\ minted = <<>>
    /\ last = NoCall
    /\ memory = <<>>
    /\ events = <<>>
    /\ response = NoResponse
    /\ sreq = "idle"
    /\ verdict = "idle"
    /\ preq = "idle"
    /\ pres = "idle"
    /\ dedupe = <<>>
    /\ pc = "idle"

\* one call of _classify_referer
ClassifyReferer ==
    /\ intel = NoReferer
    /\ intel' = _classify_referer(RefererOf(creq))
    /\ UNCHANGED <<creq, codecVars, eventVars, scoreVars, paramVars, flowVars>>

NextReferer == ClassifyReferer

SpecReferer == InitReferer /\ [][NextReferer]_vars

-----------------------------------------------------------------------------
(* Properties of _classify_referer *)

HasReferer == intel # NoReferer

\* the rows of the table whose domain is the host or a parent of the host
Matching(host) ==
    {i \in 1..Len(DOMAIN_TO_PLATFORM) :
        \/ host = DOMAIN_TO_PLATFORM[i].domain
        \/ EndsWith(host, <<".">> \o DOMAIN_TO_PLATFORM[i].domain)}

\* platform and medium are those of one of the rows
FromRows(r, rows) ==
    \E i \in rows : /\ r.platform = DOMAIN_TO_PLATFORM[i].platform
                    /\ r.medium = DOMAIN_TO_PLATFORM[i].medium

\* the host without a leading "www."
WithoutWww(host) ==
    IF StartsWith(host, <<"w", "w", "w", ".">>) THEN SubSeq(host, 5, Len(host)) ELSE host

\* the three steps of the lookup, for a host and the answer r
DomainMatching(host, r) ==
    /\ Matching(host) # {} =>
           /\ FromRows(r, Matching(host))
           /\ <<r.platform, r.medium>> # <<UNKNOWN, REFERRAL>>
    /\ DomainRows(host) # {} => FromRows(r, DomainRows(host))
    /\ Matching(host) = {} =>
           IF IsRegionalGoogle(WithoutWww(host))
           THEN <<r.platform, r.medium>> = <<<<"g", "o", "o", "g", "l", "e">>, <<"s", "e", "a", "r", "c", "h">>>>
           ELSE <<r.platform, r.medium>> = <<UNKNOWN, REFERRAL>>

\* C24: a Referer whose host is a domain of the table, "www." and that
\* domain, or another subdomain of it gets platform and medium of a row of
\* the table for that domain, never (unknown, referral); a row for the full
\* host wins over a parent domain's row; only a host no row matches is held
\* against the regional Google pattern.
C24_RefererDomainMatching ==
    HasReferer => DomainMatching(creq.host, intel)

\* the same for the hosts of which lstrip("www.") removes a leading "www."
\* and nothing else
C24_OffStrippedHosts ==
    HasReferer /\ lstrip(creq.host, {"w", "."}) = WithoutWww(creq.host)
        => DomainMatching(creq.host, intel)

\* the path substrings of the five social platforms, in priority order, and
\* their labels
PLACEMENTS ==
    (<<"i", "n", "s", "t", "a", "g", "r", "a", "m">> :> <<[sub |-> <<"/", "s", "t", "o", "r", "i", "e", "s", "/">>, label |-> <<"s", "t", "o", "r", "y">>], [sub |-> <<"/", "p", "/">>, label |-> <<"p", "o", "s", "t">>], [sub |-> <<"/", "r", "e", "e", "l", "/">>, label |-> <<"r", "e", "e", "l">>], [sub |-> <<"/", "d", "i", "r", "e", "c", "t", "/">>, label |-> <<"d", "m">>]>>)
        @@ (<<"t", "i", "k", "t", "o", "k">> :> <<[sub |-> <<"/", "v", "i", "d", "e", "o", "/">>, label |-> <<"v", "i", "d", "e", "o">>], [sub |-> <<"/", "@">>, label |-> <<"v", "i", "d", "e", "o">>]>>)
        @@ (<<"y", "o", "u", "t", "u", "b", "e">> :> <<[sub |-> <<"/", "w", "a", "t", "c", "h">>, label |-> <<"v", "i", "d", "e", "o">>], [sub |-> <<"/", "s", "h", "o", "r", "t", "s", "/">>, label |-> <<"s", "h", "o", "r", "t">>], [sub |-> <<"/", "c", "h", "a", "n", "n", "e", "l", "/">>, label |-> <<"c", "h", "a", "n", "n", "e", "l">>], [sub |-> <<"/", "@">>, label |-> <<"c", "h", "a", "n", "n", "e", "l">>]>>)
        @@ (<<"t", "w", "i", "t", "t", "e", "r">> :> <<[sub |-> <<"/", "s", "t", "a", "t", "u", "s", "/">>, label |-> <<"t", "w", "e", "e", "t">>], [sub |-> <<"/", "m", "e", "s", "s", "a", "g", "e", "s">>, label |-> <<"d", "m">>]>>)
        @@ (<<"f", "a", "c", "e", "b", "o", "o", "k">> :> <<[sub |-> <<"/", "m", "e", "s", "s", "a", "g", "e", "s">>, label |-> <<"d", "m">>], [sub |-> <<"/", "m", "s", "g">>, label |-> <<"d", "m">>], [sub |-> <<"/", "g", "r", "o", "u", "p", "s", "/">>, label |-> <<"g", "r", "o", "u", "p">>], [sub |-> <<"/", "p", "o", "s", "t", "s", "/">>, label |-> <<"p", "o", "s", "t">>]>>)

\* the label of the first substring of the platform that the path holds, the
\* generic label when it holds none
Placement(rules, path_lower) ==
    IF \E i \in 1..Len(rules) : Contains(path_lower, rules[i].sub)
    THEN rules[First({i \in 1..Len(rules) : Contains(path_lower, rules[i].sub)})].label
    ELSE FEED

\* the placement of a path on a social platform; the root path may count as
\* empty
PlacementDetail(rules, path, detail, on_empty) ==
    IF path = <<>> THEN detail = on_empty
    ELSE IF path = <<"/">> THEN detail \in {<<"b", "i", "o">>, FEED}
    ELSE detail = Placement(rules, Lower(path))

\* C25: on instagram, tiktok, youtube, twitter and facebook source_detail is
\* the label of the first matching path substring in the platform's priority
\* order, the generic label when the path is not empty and nothing matches,
\* and "bio" when the path is empty.
C25_PlacementDetail ==
    HasReferer /\ intel.platform \in DOMAIN PLACEMENTS
        => PlacementDetail(PLACEMENTS[intel.platform], creq.path, intel.detail, <<"b", "i", "o">>)

\* the same with no placement at all for the empty path
C25_NoneOnEmptyPath ==
    HasReferer /\ intel.platform \in DOMAIN PLACEMENTS
        => PlacementDetail(PLACEMENTS[intel.platform], creq.path, intel.detail, Null)

-----------------------------------------------------------------------------
(* app/core/param_injection.py *)

\* A dict is a function from keys to values; <<>> is the empty dict, and None
\* where a dict is optional.
\* d.update(e)
Update(d, e) ==
    [k \in DOMAIN d \cup DOMAIN e |-> IF k \in DOMAIN e THEN e[k] ELSE d[k]]

\* d[k] = v
Put(d, k, v) == Update(d, k :> v)

PLATFORM_SOURCE ==
    << [platform |-> <<"i", "n", "s", "t", "a", "g", "r", "a", "m">>,
         source |-> <<"i", "n", "s", "t", "a", "g", "r", "a", "m">>],
       [platform |-> <<"t", "i", "k", "t", "o", "k">>, source |-> <<"t", "i",
         "k", "t", "o", "k">>],
       [platform |-> <<"y", "o", "u", "t", "u", "b", "e">>, source |-> <<"y",
         "o", "u", "t", "u", "b", "e">>],
       [platform |-> <<"t", "w", "i", "t", "t", "e", "r">>,
         source |-> <<"x">>],
       [platform |-> <<"f", "a", "c", "e", "b", "o", "o", "k">>,
         source |-> <<"f", "a", "c", "e", "b", "o", "o", "k">>],
       [platform |-> <<"l", "i", "n", "k", "e", "d", "i", "n">>,
         source |-> <<"l", "i", "n", "k", "e", "d", "i", "n">>],
       [platform |-> <<"p", "i", "n", "t", "e", "r", "e", "s", "t">>,
         source |-> <<"p", "i", "n", "t", "e", "r", "e", "s", "t">>],
       [platform |-> <<"s", "n", "a", "p", "c", "h", "a", "t">>,
         source |-> <<"s", "n", "a", "p", "c", "h", "a", "t">>],
       [platform |-> <<"r", "e", "d", "d", "i", "t">>, source |-> <<"r", "e",
         "d", "d", "i", "t">>],
       [platform |-> <<"t", "h", "r", "e", "a", "d", "s">>, source |-> <<"t",
         "h", "r", "e", "a", "d", "s">>],
       [platform |-> <<"t", "e", "l", "e", "g", "r", "a", "m">>,
         source |-> <<"t", "e", "l", "e", "g", "r", "a", "m">>],
       [platform |-> <<"w", "h", "a", "t", "s", "a", "p", "p">>,
         source |-> <<"w", "h", "a", "t", "s", "a", "p", "p">>],
       [platform |-> <<"d", "i", "s", "c", "o", "r", "d">>, source |-> <<"d",
         "i", "s", "c", "o", "r", "d">>],
       [platform |-> <<"g", "o", "o", "g", "l", "e">>, source |-> <<"g", "o",
         "o", "g", "l", "e">>],
       [platform |-> <<"b", "i", "n", "g">>, source |-> <<"b", "i", "n",
         "g">>],
       [platform |-> <<"d", "u", "c", "k", "d", "u", "c", "k", "g", "o">>,
         source |-> <<"d", "u", "c", "k", "d", "u", "c", "k", "g", "o">>],
       [platform |-> <<"g", "m", "a", "i", "l">>, source |-> <<"g", "m", "a",
         "i", "l">>],
       [platform |-> <<"o", "u", "t", "l", "o", "o", "k">>, source |-> <<"o",
         "u", "t", "l", "o", "o", "k">>],
       [platform |-> <<"y", "a", "h", "o", "o", "_", "m", "a", "i", "l">>,
         source |-> <<"y", "a", "h", "o", "o", "_", "m", "a", "i", "l">>],
       [platform |-> <<"l", "i", "n", "k", "t", "r", "e", "e">>,
         source |-> <<"l", "i", "n", "k", "t", "r", "e", "e">>],
       [platform |-> <<"d", "i", "r", "e", "c", "t">>, source |-> <<"d", "i",
         "r", "e", "c", "t">>] >>

PLATFORM_PASSTHROUGH_PARAMS ==
    { <<"f", "b", "c", "l", "i", "d">>,
      <<"t", "t", "c", "l", "i", "d">>,
      <<"S", "c", "C", "i", "d">>,
      <<"g", "c", "l", "i", "d">>,
      <<"w", "b", "r", "a", "i", "d">>,
      <<"g", "b", "r", "a", "i", "d">>,
      <<"e", "p", "i", "k">>,
      <<"l", "i", "_", "f", "a", "t", "_", "i", "d">>,
      <<"m", "s", "c", "l", "k", "i", "d">>,
      <<"t", "w", "c", "l", "i", "d">>,
      <<"r", "d", "t", "_", "c", "i", "d">> }

\* extract_platform_params(query_params): the passthrough keys of the request.
\* PLATFORM_PASSTHROUGH_PARAMS is a set of str, and the order in which a set
\* of str is iterated changes from one interpreter process to the next
captured(query_params) ==
    [k \in PLATFORM_PASSTHROUGH_PARAMS \cap DOMAIN query_params |-> query_params[k]]

\* s[:n]
Take(s, n) == SubSeq(s, 1, IF Len(s) < n THEN Len(s) ELSE n)

\* s.replace(old, new): the occurrences of old from left to right, without
\* overlap
RECURSIVE replace(_, _, _)
replace(s, old, new) ==
    IF ~Contains(s, old) THEN s
    ELSE SubSeq(s, 1, First({i \in 0..(Len(s) - Len(old)) : OccursAt(s, old, i)}))
             \o new
             \o replace(SubSeq(s, First({i \in 0..(Len(s) - Len(old)) :
                                             OccursAt(s, old, i)}) + Len(old) + 1,
                                Len(s)),
                        old, new)

\* the scheme urlparse finds in url, "" when there is none
UrlScheme(url) ==
    IF AfterScheme(url, FindAny(url, {":"})) = url THEN <<>>
    ELSE Lower(SubSeq(url, 1, FindAny(url, {":"}) - 1))

\* the part of s before the first "#"
BeforeFragment(s) == SubSeq(s, 1, FindAny(s, {"#"}) - 1)

\* what follows the first character of s that is in chars
After(s, chars) == SubSeq(s, FindAny(s, chars) + 1, Len(s))

\* urlparse(url).query and .fragment
UrlQuery(url)    == After(BeforeFragment(AfterScheme(url, FindAny(url, {":"}))), {"?"})
UrlFragment(url) == After(AfterScheme(url, FindAny(url, {":"})), {"#"})

CAMPAIGN_MAX == 180
REFERRER_MAX == 500

HOME == <<"h", "o", "m", "e">>

\* one pass of the loop only
CollapseOnce(s) == replace(s, <<"_", "_", "_">>, <<"_", "_">>)

\* the loop "while '__' in sanitized": "___" becomes "__" until nothing changes
RECURSIVE CollapseUnderscores(_)
CollapseUnderscores(s) ==
    IF ~Contains(s, <<"_", "_">>) THEN s
    ELSE IF replace(s, <<"_", "_", "_">>, <<"_", "_">>) = s THEN s
    ELSE CollapseUnderscores(replace(s, <<"_", "_", "_">>, <<"_", "_">>))

\* campaign_raw: path + "?" + query, without leading slashes
RawCampaign(path, query) ==
    lstrip(IF query # <<>> THEN path \o <<"?">> \o query ELSE path, {"/"})

\* the sanitizing of a campaign_raw
Sanitize(campaign_raw) ==
    IF campaign_raw = <<>> THEN HOME
    ELSE Take(CollapseUnderscores(
                  replace(replace(replace(replace(campaign_raw,
                      <<"/">>, <<"_">>), <<"?">>, <<"~">>), <<"&">>, <<"_", "_">>),
                      <<"=">>, <<"-">>)),
              CAMPAIGN_MAX)

\* _sanitize_campaign(dest_url); the URLs of the model carry no ";"
_sanitize_campaign(dest_url) ==
    Sanitize(RawCampaign(urlparse(dest_url).path, UrlQuery(dest_url)))

\* _encode_referrer(referrer)
_encode_referrer(referrer) ==
    IF ~Truthy(referrer) THEN <<>> ELSE Take(referrer, REFERRER_MAX)

\* str(x) inside an f-string
Fmt(x) == IF x = Null THEN <<"N", "o", "n", "e">> ELSE x

\* PLATFORM_SOURCE.get(source_platform, source_platform or "unknown")
UtmSource(source_platform) ==
    IF \E i \in 1..Len(PLATFORM_SOURCE) : PLATFORM_SOURCE[i].platform = source_platform
    THEN PLATFORM_SOURCE[First({i \in 1..Len(PLATFORM_SOURCE) :
                                    PLATFORM_SOURCE[i].platform = source_platform})].source
    ELSE IF Truthy(source_platform) THEN source_platform
    ELSE <<"u", "n", "k", "n", "o", "w", "n">>

K_UTM_SOURCE   == <<"u", "t", "m", "_", "s", "o", "u", "r", "c", "e">>
K_UTM_MEDIUM   == <<"u", "t", "m", "_", "m", "e", "d", "i", "u", "m">>
K_UTM_CONTENT  == <<"u", "t", "m", "_", "c", "o", "n", "t", "e", "n", "t">>
K_UTM_CAMPAIGN == <<"u", "t", "m", "_", "c", "a", "m", "p", "a", "i", "g", "n">>
INF_CLICK_ID   == <<"i", "n", "f", "_", "c", "l", "i", "c", "k", "_", "i", "d">>
S_STACKFLUENCE == <<"s", "t", "a", "c", "k", "f", "l", "u", "e", "n", "c", "e", "_">>

\* (request_headers or {}).get("sec-fetch-site") or (...).get("Sec-Fetch-Site")
SecFetchSiteOf(request_headers) ==
    IF Get(request_headers, SEC_FETCH_SITE) # <<>>
    THEN Get(request_headers, SEC_FETCH_SITE)
    ELSE Get(request_headers, <<"S", "e", "c", "-", "F", "e", "t", "c", "h", "-", "S", "i", "t", "e">>)

\* rule 1: UTM params
Rule1(source_platform, dest_url, referrer, request_headers) ==
    LET utm == (K_UTM_SOURCE :> UtmSource(source_platform))
                   @@ (K_UTM_MEDIUM :> <<"c", "r", "e", "a", "t", "o", "r">>)
                   @@ (K_UTM_CONTENT :> _sanitize_campaign(dest_url))
    IN  IF Truthy(referrer) THEN Put(utm, K_UTM_CAMPAIGN, _encode_referrer(referrer))
        ELSE IF SecFetchSiteOf(request_headers) # <<>>
        THEN Put(utm, K_UTM_CAMPAIGN, Lower(SecFetchSiteOf(request_headers)))
        ELSE utm

\* rule 2 left out
Rule2_omitted(params, click_id) == params

\* rule 2: the click ID
Rule2(params, click_id) == Put(params, INF_CLICK_ID, click_id)

\* rule 3: platform passthrough
Rule3(params, platform_params) == Update(params, platform_params)

\* rule 4: mobile attribution, only when the link goes to an app
Rule4(params, has_app_destination, click_id, source_platform, creator_handle, campaign_slug) ==
    IF ~has_app_destination THEN params
    ELSE Update(params,
        (<<"p", "i", "d">> :> S_STACKFLUENCE \o Fmt(source_platform))
        @@ (<<"c">> :> campaign_slug)
        @@ (<<"a", "f", "_", "s", "u", "b", "1">> :> creator_handle)
        @@ (<<"a", "f", "_", "s", "u", "b", "2">> :> click_id)
        @@ (<<"a", "f", "_", "s", "u", "b", "3">> :> <<>>)
        @@ (<<"~", "c", "h", "a", "n", "n", "e", "l">> :> source_platform)
        @@ (<<"~", "c", "a", "m", "p", "a", "i", "g", "n">> :> campaign_slug)
        @@ (<<"~", "f", "e", "a", "t", "u", "r", "e">> :> <<"i", "n", "f", "l", "u", "e", "n", "c", "e", "r">>)
        @@ (<<"~", "t", "a", "g", "s">> :> creator_handle)
        @@ (<<"a", "d", "j", "_", "t", "r", "a", "c", "k", "e", "r">> :> click_id)
        @@ (<<"a", "d", "j", "_", "c", "a", "m", "p", "a", "i", "g", "n">> :> campaign_slug)
        @@ (<<"a", "d", "j", "_", "c", "r", "e", "a", "t", "i", "v", "e">> :> creator_handle)
        @@ (<<"k", "o", "_", "c", "l", "i", "c", "k", "_", "i", "d">> :> click_id)
        @@ (<<"s", "i", "n", "g", "u", "l", "a", "r", "_", "c", "l", "i", "c", "k", "_", "i", "d">> :> click_id))

\* rule 5 the other way round: a computed value wins over the override
Rule5_computed_wins(params, param_overrides) == Update(param_overrides, params)

\* rule 5: per-link overrides, applied last
Rule5(params, param_overrides) == Update(params, param_overrides)

\* build_tracking_params(...): the persisted parameter set
build_tracking_params(click_id, source_platform, dest_url, referrer, creator_handle, campaign_slug, param_overrides, has_app_destination, platform_params, request_headers) ==
    Rule5(Rule4(Rule3(Rule2(Rule1(source_platform, dest_url, referrer, request_headers),
                            click_id),
                      platform_params),
                has_app_destination, click_id, source_platform, creator_handle,
                campaign_slug),
          param_overrides)

\* urllib.parse as inject_params_to_url uses it

\* the characters quote_plus leaves alone
ALWAYS_SAFE == DigitSet \cup LowerSet \cup UpperSet \cup {"_", ".", "-", "~"}

\* the ASCII code, in hexadecimal, of the other characters of the model
PERCENT_CODES ==
    << [char |-> ":", code |-> <<"3", "A">>],
       [char |-> "/", code |-> <<"2", "F">>],
       [char |-> "?", code |-> <<"3", "F">>],
       [char |-> "&", code |-> <<"2", "6">>],
       [char |-> "=", code |-> <<"3", "D">>],
       [char |-> "@", code |-> <<"4", "0">>],
       [char |-> "[", code |-> <<"5", "B">>],
       [char |-> "(", code |-> <<"2", "8">>],
       [char |-> ")", code |-> <<"2", "9">>],
       [char |-> ";", code |-> <<"3", "B">>],
       [char |-> ",", code |-> <<"2", "C">>],
       [char |-> "!", code |-> <<"2", "1">>],
       [char |-> "#", code |-> <<"2", "3">>],
       [char |-> "%", code |-> <<"2", "5">>],
       [char |-> "+", code |-> <<"2", "B">>] >>

\* the bytes of the non-ASCII character in UTF-8, percent-encoded
NON_ASCII_CODE == <<"%", "C", "3", "%", "A", "9">>

QuoteChar(c) ==
    IF c = " " THEN <<"+">>
    ELSE IF c \in ALWAYS_SAFE THEN <<c>>
    ELSE IF c = NonAscii THEN NON_ASCII_CODE
    ELSE <<"%">> \o PERCENT_CODES[First({i \in 1..Len(PERCENT_CODES) :
                                            PERCENT_CODES[i].char = c})].code

\* quote_plus(s)
RECURSIVE quote_plus(_)
quote_plus(s) == IF s = <<>> THEN s ELSE QuoteChar(s[1]) \o quote_plus(Tail(s))

\* the escapes unquote() finds at the head of s; hexadecimal digits count in
\* both cases.  The URLs of the model escape no letter and no digit.
EscapesAt(s) ==
    {i \in 1..Len(PERCENT_CODES) :
        Len(s) >= 3 /\ s[1] = "%" /\ Lower(SubSeq(s, 2, 3)) = Lower(PERCENT_CODES[i].code)}

\* unquote(s)
RECURSIVE unquote(_)
unquote(s) ==
    IF s = <<>> THEN s
    ELSE IF Len(s) >= 6 /\ Lower(SubSeq(s, 1, 6)) = Lower(NON_ASCII_CODE)
    THEN <<NonAscii>> \o unquote(SubSeq(s, 7, Len(s)))
    ELSE IF EscapesAt(s) # {}
    THEN <<PERCENT_CODES[First(EscapesAt(s))].char>> \o unquote(SubSeq(s, 4, Len(s)))
    ELSE <<s[1]>> \o unquote(Tail(s))

NonEmpty(s) == s # <<>>

\* name and value of one "name=value" field; a field without "=" has the
\* value "" (keep_blank_values)
Field(name_value) ==
    [k |-> unquote(replace(SubSeq(name_value, 1, FindAny(name_value, {"="}) - 1),
                           <<"+">>, <<" ">>)),
     v |-> unquote(replace(After(name_value, {"="}), <<"+">>, <<" ">>))]

\* parse_qsl(qs, keep_blank_values=True): the fields in order
parse_qsl(qs) ==
    IF qs = <<>> THEN <<>>
    ELSE [i \in 1..Len(SelectSeq(split(qs, "&"), NonEmpty)) |->
              Field(SelectSeq(split(qs, "&"), NonEmpty)[i])]

\* a dict keeps its keys in insertion order: a sequence of items
HasKey(d, k) == \E i \in 1..Len(d) : d[i].k = k

\* d[k] = v
SetItem(d, k, v) ==
    IF HasKey(d, k)
    THEN [i \in 1..Len(d) |-> IF d[i].k = k THEN [k |-> k, v |-> v] ELSE d[i]]
    ELSE Append(d, [k |-> k, v |-> v])

\* d[k], of a key d has
Item(d, k) == d[First({i \in 1..Len(d) : d[i].k = k})].v

\* d.update(e)
RECURSIVE UpdateItems(_, _)
UpdateItems(d, e) ==
    IF e = <<>> THEN d ELSE UpdateItems(SetItem(d, e[1].k, e[1].v), Tail(e))

\* the set of keys, and the dict as a mapping
Keys(d) == {d[i].k : i \in 1..Len(d)}
AsDict(d) == [k \in Keys(d) |-> Item(d, k)]

\* parse_qs: name -> list of its values
RECURSIVE Collect(_, _)
Collect(fields, d) ==
    IF fields = <<>> THEN d
    ELSE Collect(Tail(fields),
                 SetItem(d, fields[1].k,
                         IF HasKey(d, fields[1].k)
                         THEN Append(Item(d, fields[1].k), fields[1].v)
                         ELSE <<fields[1].v>>))

parse_qs(qs) == Collect(parse_qsl(qs), <<>>)

\* the "name=value" strings of one key
Encoded(k, values) ==
    [i \in 1..Len(values) |-> quote_plus(k) \o <<"=">> \o quote_plus(values[i])]

RECURSIVE Flatten(_)
Flatten(ss) == IF ss = <<>> THEN <<>> ELSE ss[1] \o Flatten(Tail(ss))

\* sep.join(parts)
RECURSIVE JoinWith(_, _)
JoinWith(parts, sep) ==
    IF parts = <<>> THEN <<>>
    ELSE IF Len(parts) = 1 THEN parts[1]
    ELSE parts[1] \o sep \o JoinWith(Tail(parts), sep)

\* urlencode(query, doseq=True)
urlencode(query) ==
    JoinWith(Flatten([i \in 1..Len(query) |-> Encoded(query[i].k, query[i].v)]), <<"&">>)

USES_NETLOC ==
    { <<"f", "t", "p">>,
      <<"h", "t", "t", "p">>,
      <<"g", "o", "p", "h", "e", "r">>,
      <<"n", "n", "t", "p">>,
      <<"t", "e", "l", "n", "e", "t">>,
      <<"i", "m", "a", "p">>,
      <<"w", "a", "i", "s">>,
      <<"f", "i", "l", "e">>,
      <<"m", "m", "s">>,
      <<"h", "t", "t", "p", "s">>,
      <<"s", "h", "t", "t", "p">>,
      <<"s", "n", "e", "w", "s">>,
      <<"p", "r", "o", "s", "p", "e", "r", "o">>,
      <<"r", "t", "s", "p">>,
      <<"r", "t", "s", "p", "s">>,
      <<"r", "t", "s", "p", "u">>,
      <<"r", "s", "y", "n", "c">>,
      <<"s", "v", "n">>,
      <<"s", "v", "n", "+", "s", "s", "h">>,
      <<"s", "f", "t", "p">>,
      <<"n", "f", "s">>,
      <<"g", "i", "t">>,
      <<"g", "i", "t", "+", "s", "s", "h">>,
      <<"w", "s">>,
      <<"w", "s", "s">> }

\* urlunsplit: the path behind "//netloc"
WithNetloc(scheme, netloc, path) ==
    IF netloc # <<>> \/ (scheme \in USES_NETLOC /\ Take(path, 2) # <<"/", "/">>)
    THEN <<"/", "/">> \o netloc \o (IF path # <<>> /\ path[1] # "/" THEN <<"/">> ELSE <<>>) \o path
    ELSE path

\* urlunparse of a URL that has no params
urlunparse(scheme, netloc, path, query, fragment) ==
    (IF scheme # <<>> THEN scheme \o <<":">> ELSE <<>>)
        \o WithNetloc(scheme, netloc, path)
        \o (IF query # <<>> THEN <<"?">> \o query ELSE <<>>)
        \o (IF fragment # <<>> THEN <<"#">> \o fragment ELSE <<>>)

ONLY_IF_MISSING == "only_if_missing"
ALWAYS_OVERRIDE == "always_override"

\* the loop without the policy test: params always win
RECURSIVE InjectEach_overriding(_, _, _)
InjectEach_overriding(existing, params, policy) ==
    IF params = <<>> THEN existing
    ELSE InjectEach_overriding(SetItem(existing, params[1].k, <<Fmt(params[1].v)>>),
                               Tail(params), policy)

\* the loop over params.items()
RECURSIVE InjectEach(_, _, _)
InjectEach(existing, params, policy) ==
    IF params = <<>> THEN existing
    ELSE InjectEach(IF policy = ONLY_IF_MISSING /\ HasKey(existing, params[1].k)
                    THEN existing
                    ELSE SetItem(existing, params[1].k, <<Fmt(params[1].v)>>),
                    Tail(params), policy)

\* inject_params_to_url(url, params, policy)
inject_params_to_url(url, params, policy) ==
    urlunparse(UrlScheme(url), urlparse(url).netloc, urlparse(url).path,
               urlencode(InjectEach(parse_qs(UrlQuery(url)), params, policy)),
               UrlFragment(url))

\* "ios" in os_lower or "iphone" in os_lower or "ipad" in os_lower
IsIos(os_lower) ==
    \/ Contains(os_lower, <<"i", "o", "s">>)
    \/ Contains(os_lower, <<"i", "p", "h", "o", "n", "e">>)
    \/ Contains(os_lower, <<"i", "p", "a", "d">>)

\* "android" in os_lower
IsAndroid(os_lower) == Contains(os_lower, <<"a", "n", "d", "r", "o", "i", "d">>)

\* a link row, as far as resolve_destination reads it; param_overrides is a
\* dict in insertion order, <<>> standing for None and for {}
Link(destination_url, universal_link, ios_deeplink, ios_fallback_url, android_deeplink, android_fallback_url, param_overrides) ==
    [destination_url |-> destination_url, universal_link |-> universal_link,
     ios_deeplink |-> ios_deeplink, ios_fallback_url |-> ios_fallback_url,
     android_deeplink |-> android_deeplink,
     android_fallback_url |-> android_fallback_url,
     creator_handle |-> <<"a", "n", "a">>, campaign_slug |-> <<"f", "a", "l", "l">>,
     param_overrides |-> param_overrides]

has_app_destination(link) ==
    \/ Truthy(link.ios_deeplink) \/ Truthy(link.ios_fallback_url)
    \/ Truthy(link.android_deeplink) \/ Truthy(link.android_fallback_url)
    \/ Truthy(link.universal_link)

\* base_url
BaseUrl(link, is_mobile, os_family) ==
    IF is_mobile /\ Truthy(os_family) /\ IsIos(Lower(os_family))
    THEN IF Truthy(link.universal_link) THEN link.universal_link
         ELSE IF Truthy(link.ios_fallback_url) THEN link.ios_fallback_url
         ELSE link.destination_url
    ELSE IF is_mobile /\ Truthy(os_family) /\ IsAndroid(Lower(os_family))
    THEN IF Truthy(link.universal_link) THEN link.universal_link
         ELSE IF Truthy(link.android_fallback_url) THEN link.android_fallback_url
         ELSE link.destination_url
    ELSE link.destination_url

\* the deep link with the click id appended
DeepLinkValue(deeplink, click_id) ==
    deeplink \o (IF "?" \in Range(deeplink) THEN <<"&">> ELSE <<"?">>)
             \o INF_CLICK_ID \o <<"=">> \o click_id

IOS_DEEPLINK     == <<"i", "o", "s", "_", "d", "e", "e", "p", "l", "i", "n", "k">>
ANDROID_DEEPLINK == <<"a", "n", "d", "r", "o", "i", "d", "_", "d", "e", "e", "p", "l", "i", "n", "k">>

\* url_params gets its deep-link entry
WithDeepLink(url_params, link, click_id, is_mobile, os_family) ==
    IF is_mobile /\ Truthy(os_family) /\ IsIos(Lower(os_family))
    THEN IF Truthy(link.ios_deeplink) /\ Truthy(link.ios_fallback_url)
         THEN SetItem(url_params, IOS_DEEPLINK, DeepLinkValue(link.ios_deeplink, click_id))
         ELSE url_params
    ELSE IF is_mobile /\ Truthy(os_family) /\ IsAndroid(Lower(os_family))
    THEN IF Truthy(link.android_deeplink) /\ Truthy(link.android_fallback_url)
         THEN SetItem(url_params, ANDROID_DEEPLINK,
                      DeepLinkValue(link.android_deeplink, click_id))
         ELSE url_params
    ELSE url_params

\* url_params with a UTM parameter among them
UrlParams_with_utm(link, click_id, is_mobile, os_family, platform_params) ==
    SetItem(UpdateItems(UpdateItems(<<[k |-> INF_CLICK_ID, v |-> click_id]>>,
                                    platform_params),
                        link.param_overrides),
            K_UTM_MEDIUM, <<"c", "r", "e", "a", "t", "o", "r">>)

\* url_params: the click id, the platform parameters, the overrides, the
\* deep link
UrlParams(link, click_id, is_mobile, os_family, platform_params) ==
    WithDeepLink(UpdateItems(UpdateItems(<<[k |-> INF_CLICK_ID, v |-> click_id]>>,
                                         platform_params),
                             link.param_overrides),
                 link, click_id, is_mobile, os_family)

\* resolve_destination(...): (final_url, params); platform_params is a dict
\* in insertion order
resolve_destination(link, click_id, source_platform, is_mobile, os_family, platform_params, referrer, request_headers) ==
    [final_url |-> inject_params_to_url(BaseUrl(link, is_mobile, os_family),
                       UrlParams(link, click_id, is_mobile, os_family, platform_params),
                       ONLY_IF_MISSING),
     params    |-> build_tracking_params(click_id, source_platform,
                       link.destination_url, referrer, link.creator_handle,
                       link.campaign_slug, AsDict(link.param_overrides),
                       has_app_destination(link), AsDict(platform_params),
                       request_headers)]

\* the dicts, in insertion order, that hold the items of the mapping d
Orderings(d) ==
    {s \in [1..Cardinality(DOMAIN d) -> [k : DOMAIN d, v : {d[x] : x \in DOMAIN d}]] :
        /\ \A i \in 1..Len(s) : s[i].v = d[s[i].k]
        /\ \A i, j \in 1..Len(s) : s[i].k = s[j].k => i = j}

\* extract_platform_params(query_params): one of the orders the loop can take
extract_platform_params(query_params) == Orderings(captured(query_params))

-----------------------------------------------------------------------------
(* Calls of resolve_destination *)

LongPath == 200

\* a destination whose path is longer than CAMPAIGN_MAX when sanitized
LongUrl ==
    <<"h", "t", "t", "p", "s", ":", "/", "/", "s", ".", "e", "x", "/", "x", "&", "&", "y", "/">>
        \o [i \in 1..LongPath |-> "a"] \o <<"?", "i", "d", "=", "5">>

\* destination_url: the example of the documentation, no path, the root path, an own inf_click_id
DestinationUrls ==
    { <<"h", "t", "t", "p", "s", ":", "/", "/", "s", ".", "e", "x", "/", "s", "u",
        "m", "m", "e", "r", "/", "s", "a", "l", "e", "?", "i", "d", "=", "5",
        "&", "r", "e", "f", "=", "i", "g">>,
      <<"h", "t", "t", "p", "s", ":", "/", "/", "s", ".", "e", "x">>,
      <<"h", "t", "t", "p", "s", ":", "/", "/", "s", ".", "e", "x", "/">>,
      <<"h", "t", "t", "p", "s", ":", "/", "/", "s", ".", "e", "x", "/", "p", "?",
        "i", "n", "f", "_", "c", "l", "i", "c", "k", "_", "i", "d", "=", "o",
        "l", "d", "&", "a", "=", "1", "+", "2", "#", "t", "o", "p">> }

\* universal_link, ios_deeplink, ios_fallback_url, android_deeplink,
\* android_fallback_url; the columns are nullable text, <<>> is the empty string
AppFields ==
    { <<Null, Null, Null, Null, Null>>,
      <<<<>>, Null, Null, Null, Null>>,
      <<<<"h", "t", "t", "p", "s", ":", "/", "/", "u", ".", "e", "x", "/", "o",
        "p", "e", "n">>, Null, Null, Null, Null>>,
      <<Null, <<"a", "p", "p", ":", "/", "/", "p", "?", "x", "=", "1">>, <<"h",
        "t", "t", "p", "s", ":", "/", "/", "i", ".", "e", "x", "/", "a", "p",
        "p", "?", "i", "o", "s", "_", "d", "e", "e", "p", "l", "i", "n", "k",
        "=", "o", "w", "n">>, Null, Null>>,
      <<Null, Null, Null, <<"a", "p", "p", ":", "/", "/", "p">>, <<"h", "t", "t",
        "p", "s", ":", "/", "/", "a", ".", "e", "x", "/", "a", "p", "p">>>>,
      <<Null, <<"a", "p", "p", ":", "/", "/", "p">>, Null, Null, Null>>,
      <<<<"h", "t", "t", "p", "s", ":", "/", "/", "u", ".", "e", "x", "/", "o",
        "p", "e", "n">>, <<"a", "p", "p", ":", "/", "/", "p">>, <<"h", "t",
        "t", "p", "s", ":", "/", "/", "i", ".", "e", "x", "/", "a", "p",
        "p">>, <<"a", "p", "p", ":", "/", "/", "p">>, <<"h", "t", "t", "p",
        "s", ":", "/", "/", "a", ".", "e", "x", "/", "a", "p", "p">>>> }

\* param_overrides of a link
ParamOverrides ==
    { <<>>,
      <<[k |-> <<"u", "t", "m", "_", "s", "o", "u", "r", "c", "e">>, v |-> <<"b",
        "r", "a", "n", "d">>]>>,
      <<[k |-> <<"i", "n", "f", "_", "c", "l", "i", "c", "k", "_", "i", "d">>,
        v |-> <<"f", "i", "x", "e", "d">>], [k |-> <<"p", "i", "d">>,
        v |-> <<"x">>]>>,
      <<[k |-> <<"n", "o", "t", "e">>, v |-> <<"U+00E9", " ", "b">>]>> }

\* links without an app destination, links to the documented destination
\* with app fields, and a link to the long destination
Links ==
    {Link(u, Null, Null, Null, Null, Null, o) : u \in DestinationUrls, o \in ParamOverrides}
        \cup {Link(<<"h", "t", "t", "p", "s", ":", "/", "/", "s", ".", "e", "x", "/", "s", "u", "m", "m", "e", "r", "/", "s", "a", "l", "e", "?", "i", "d", "=", "5", "&", "r", "e", "f", "=", "i", "g">>, a[1], a[2], a[3], a[4], a[5], o) :
                  a \in AppFields, o \in ParamOverrides}
        \cup {Link(LongUrl, Null, Null, Null, Null, Null, <<>>)}

\* click identifiers, as minted
ClickIds ==
    { <<"c", "1", ".", "9", ".", "a", "b">>,
      <<"c", "2", ".", "9", ".", "c", "d">> }

\* the device of the request: is_mobile and os_family
Devices ==
    { [is_mobile |-> FALSE, os_family |-> Null],
      [is_mobile |-> FALSE, os_family |-> <<"i", "O", "S">>],
      [is_mobile |-> TRUE, os_family |-> Null],
      [is_mobile |-> TRUE, os_family |-> <<"i", "O", "S">>],
      [is_mobile |-> TRUE, os_family |-> <<"A", "n", "d", "r", "o", "i", "d">>],
      [is_mobile |-> TRUE, os_family |-> <<"W", "i", "n", "d", "o", "w", "s">>],
      [is_mobile |-> TRUE, os_family |-> <<"K", "a", "i", "O", "S">>] }

\* the query parameters of the request
InboundQueries ==
    { <<>>,
      (<<"f", "b", "c", "l", "i", "d">> :> <<"F", "1">>) @@ (<<"x">> :> <<"1">>),
      (<<"g", "c", "l", "i", "d">> :> <<"G", "1">>) @@ (<<"f", "b", "c", "l", "i",
        "d">> :> <<"F", "2">>) }

\* source_platform, referrer and headers of the request
Contexts ==
    { [source_platform |-> <<"i", "n", "s", "t", "a", "g", "r", "a", "m">>,
        referrer |-> <<"h", "t", "t", "p", "s", ":", "/", "/", "l", ".", "i",
        "n", "s", "t", "a", "g", "r", "a", "m", ".", "c", "o", "m", "/">>,
        request_headers |-> <<>>],
      [source_platform |-> <<"d", "i", "r", "e", "c", "t">>, referrer |-> Null,
        request_headers |-> <<>>],
      [source_platform |-> <<"u", "n", "k", "n", "o", "w", "n", "_", "e", "x", "t",
        "e", "r", "n", "a", "l">>, referrer |-> Null,
        request_headers |-> (<<"s", "e", "c", "-", "f", "e", "t", "c", "h",
        "-", "s", "i", "t", "e">> :> <<"C", "r", "o", "s", "s", "-", "S",
        "i", "t", "e">>)],
      [source_platform |-> <<"n", "e", "w", "s", "i", "t", "e">>,
        referrer |-> <<"h", "t", "t", "p", "s", ":", "/", "/", "n", "e", "w",
        ".", "e", "x", "/", "a">>, request_headers |-> (<<"S", "e", "c", "-",
        "F", "e", "t", "c", "h", "-", "S", "i", "t", "e">> :> <<"s", "a",
        "m", "e", "-", "s", "i", "t", "e">>)] }

ParamRequests ==
    [link : Links, click_id : ClickIds, device : Devices, query_params : InboundQueries,
     context : Contexts]

NoResult == [kind |-> "none"]

\* resolve_destination on a request, with the platform parameters captured
Resolved(r, platform_params) ==
    [kind |-> "resolved", platform_params |-> platform_params,
     out  |-> resolve_destination(r.link, r.click_id, r.context.source_platform,
                  r.device.is_mobile, r.device.os_family, platform_params,
                  r.context.referrer, r.context.request_headers)]

InitParams ==
    /\ preq \in ParamRequests
    /\ pres = NoResult
    /\ clock = StartClock
    /\ minted = <<>>
    /\ last = NoCall
    /\ memory = <<>>
    /\ events = <<>>
    /\ response = NoResponse
    /\ sreq = "idle"
    /\ verdict = "idle"
    /\ creq = "idle"
    /\ intel = "idle"
    /\ dedupe = <<>>
    /\ pc = "idle"

\* one call of resolve_destination
ResolveDestination ==
    /\ pres = NoResult
    /\ \E platform_params \in extract_platform_params(preq.query_params) :
           pres' = Resolved(preq, platform_params)
    /\ UNCHANGED <<preq, codecVars, eventVars, scoreVars, classVars, flowVars>>

NextParams == ResolveDestination

SpecParams == InitParams /\ [][NextParams]_vars

-----------------------------------------------------------------------------
(* Properties of the persisted parameter set *)

HasResult == pres # NoResult

\* what rules 1 to 4 compute for the request
Computed ==
    Rule4(Rule3(Rule2(Rule1(preq.context.source_platform, preq.link.destination_url,
                            preq.context.referrer, preq.context.request_headers),
                      preq.click_id),
                AsDict(pres.platform_params)),
          has_app_destination(preq.link), preq.click_id, preq.context.source_platform,
          preq.link.creator_handle, preq.link.campaign_slug)

Overrides == preq.link.param_overrides

\* C11: every key of param_overrides is persisted with the override's value,
\* whatever rules 1-4 computed for it; without overrides the persisted set is
\* the result of rules 1-4.
C11_OverridePrecedence ==
    HasResult =>
        /\ \A i \in 1..Len(Overrides) :
               /\ Overrides[i].k \in DOMAIN pres.out.params
               /\ pres.out.params[Overrides[i].k] = Overrides[i].v
        /\ Overrides = <<>> => pres.out.params = Computed

\* an override has replaced a value that rules 1-4 computed
C11_Witness ==
    /\ HasResult
    /\ \E i \in 1..Len(Overrides) :
           /\ Overrides[i].k \in DOMAIN Computed
           /\ Computed[Overrides[i].k] # Overrides[i].v
           /\ pres.out.params[Overrides[i].k] = Overrides[i].v

\* C12 as stated: the persisted set has the key inf_click_id, and its value is
\* the click identifier passed to resolve_destination.
C12_ClickIdPersisted ==
    HasResult =>
        /\ INF_CLICK_ID \in DOMAIN pres.out.params
        /\ pres.out.params[INF_CLICK_ID] = preq.click_id

\* C12: the persisted set always has the key inf_click_id; its value is the
\* click identifier passed to resolve_destination unless param_overrides has
\* the key inf_click_id, and then it is the override's value.
C12_ClickIdUnlessOverridden ==
    HasResult =>
        /\ INF_CLICK_ID \in DOMAIN pres.out.params
        /\ pres.out.params[INF_CLICK_ID] =
               IF HasKey(Overrides, INF_CLICK_ID) THEN Item(Overrides, INF_CLICK_ID)
               ELSE preq.click_id

\* a link with app fields and overrides, a request with platform parameters:
\* the click identifier is persisted
C12_Witness ==
    /\ HasResult
    /\ has_app_destination(preq.link)
    /\ pres.platform_params # <<>>
    /\ Overrides # <<>> /\ ~HasKey(Overrides, INF_CLICK_ID)
    /\ pres.out.params[INF_CLICK_ID] = preq.click_id

\* path and query of the destination, as one string behind its leading slashes
PathAndQuery ==
    urlparse(preq.link.destination_url).path
        \o (IF UrlQuery(preq.link.destination_url) # <<>>
            THEN <<"?">> \o UrlQuery(preq.link.destination_url) ELSE <<>>)

Stripped ==
    SubSeq(PathAndQuery,
           IF \A i \in 1..Len(PathAndQuery) : PathAndQuery[i] = "/"
           THEN Len(PathAndQuery) + 1
           ELSE CHOOSE i \in 1..Len(PathAndQuery) :
                    PathAndQuery[i] # "/" /\ \A k \in 1..(i - 1) : PathAndQuery[k] = "/",
           Len(PathAndQuery))

\* the replacement of one character
Replacement(c) ==
    CASE c = "/" -> <<"_">>
      [] c = "?" -> <<"~">>
      [] c = "&" -> <<"_", "_">>
      [] c = "=" -> <<"-">>
      [] OTHER   -> <<c>>

\* the characters lo..hi of s, each replaced
RECURSIVE Replaced(_, _, _)
Replaced(s, lo, hi) ==
    IF lo > hi THEN <<>>
    ELSE IF lo = hi THEN Replacement(s[lo])
    ELSE Replaced(s, lo, (lo + hi) \div 2) \o Replaced(s, ((lo + hi) \div 2) + 1, hi)

\* the characters lo..hi of s without the underscores that stand behind two
\* underscores: a run of three or more becomes a run of two
RECURSIVE Squeezed(_, _, _)
Squeezed(s, lo, hi) ==
    IF lo > hi THEN <<>>
    ELSE IF lo = hi
    THEN IF lo >= 3 /\ s[lo] = "_" /\ s[lo - 1] = "_" /\ s[lo - 2] = "_" THEN <<>>
         ELSE <<s[lo]>>
    ELSE Squeezed(s, lo, (lo + hi) \div 2) \o Squeezed(s, ((lo + hi) \div 2) + 1, hi)

\* replaced, squeezed and cut to 180 characters
Content(s) ==
    SubSeq(Squeezed(Replaced(s, 1, Len(s)), 1, Len(Replaced(s, 1, Len(s)))), 1,
           IF Len(Squeezed(Replaced(s, 1, Len(s)), 1, Len(Replaced(s, 1, Len(s))))) > 180
           THEN 180
           ELSE Len(Squeezed(Replaced(s, 1, Len(s)), 1, Len(Replaced(s, 1, Len(s))))))

UtmContent == pres.out.params[K_UTM_CONTENT]

\* what C13 says of every utm_content
WellFormedContent ==
    /\ \A i \in 1..Len(UtmContent) : UtmContent[i] \notin {"/", "?", "&", "="}
    /\ ~Contains(UtmContent, <<"_", "_", "_">>)
    /\ Len(UtmContent) <= 180

\* C13 as stated: utm_content is the stripped, replaced, squeezed and truncated
\* path+query of every destination, and "home" when path and query are both
\* empty.
C13_SanitizedUnlessBothEmpty ==
    HasResult /\ ~HasKey(Overrides, K_UTM_CONTENT) =>
        /\ WellFormedContent
        /\ UtmContent =
               IF urlparse(preq.link.destination_url).path = <<>>
                      /\ UrlQuery(preq.link.destination_url) = <<>>
               THEN HOME
               ELSE Content(Stripped)

\* C13: utm_content is the stripped, replaced, squeezed and truncated
\* path+query of the destination, and "home" when nothing is left of path and
\* query once the leading slashes are stripped; it never contains "/", "?",
\* "&", "=" or "___" and never exceeds 180 characters.
C13_Sanitized ==
    HasResult /\ ~HasKey(Overrides, K_UTM_CONTENT) =>
        /\ WellFormedContent
        /\ UtmContent = IF Stripped = <<>> THEN HOME ELSE Content(Stripped)
        /\ preq.link.destination_url = <<"h", "t", "t", "p", "s", ":", "/", "/", "s", ".", "e", "x", "/", "s", "u", "m", "m", "e", "r", "/", "s", "a", "l", "e", "?", "i", "d", "=", "5", "&", "r", "e", "f", "=", "i", "g">>
               => UtmContent = <<"s", "u", "m", "m", "e", "r", "_", "s", "a", "l", "e", "~", "i", "d", "-", "5", "_", "_", "r", "e", "f", "-", "i", "g">>

\* a destination whose path has "&&" and is longer than 180 characters: the
\* underscores are collapsed and the content is truncated
C13_Witness ==
    /\ HasResult
    /\ Len(Stripped) > 180
    /\ Contains(Replaced(Stripped, 1, Len(Stripped)), <<"_", "_", "_">>)
    /\ Len(UtmContent) = 180
    /\ Contains(UtmContent, <<"_", "_">>)

-----------------------------------------------------------------------------
(* Properties of the final URL *)

\* the OS families of iOS and of Android devices, as the user agent parser
\* names them
IosFamilies     == {<<"i", "o", "s">>}
AndroidFamilies == {<<"a", "n", "d", "r", "o", "i", "d">>}

\* the destination the documentation gives a request
ExpectedBase ==
    IF preq.device.is_mobile /\ preq.device.os_family # Null
           /\ Lower(preq.device.os_family) \in IosFamilies
    THEN IF Truthy(preq.link.universal_link) THEN preq.link.universal_link
         ELSE IF Truthy(preq.link.ios_fallback_url) THEN preq.link.ios_fallback_url
         ELSE preq.link.destination_url
    ELSE IF preq.device.is_mobile /\ preq.device.os_family # Null
                /\ Lower(preq.device.os_family) \in AndroidFamilies
    THEN IF Truthy(preq.link.universal_link) THEN preq.link.universal_link
         ELSE IF Truthy(preq.link.android_fallback_url) THEN preq.link.android_fallback_url
         ELSE preq.link.destination_url
    ELSE preq.link.destination_url

\* two URLs with the same scheme, host and path
SameBase(a, b) ==
    /\ UrlScheme(a) = UrlScheme(b)
    /\ urlparse(a).netloc = urlparse(b).netloc
    /\ urlparse(a).path = urlparse(b).path

\* C14: the final URL is built on universal_link or ios_fallback_url for a
\* mobile iOS request, on universal_link or android_fallback_url for a mobile
\* Android request, and on destination_url in every other case.
C14_DestinationResolution ==
    HasResult => SameBase(pres.out.final_url, ExpectedBase)

\* the same, for the requests whose OS family does not merely contain "ios"
C14_OffLookalikes ==
    HasResult /\ preq.device.os_family # <<"K", "a", "i", "O", "S">>
        => SameBase(pres.out.final_url, ExpectedBase)

\* the query parameters of the final URL and of the URL it is built on
FinalQuery == parse_qs(UrlQuery(pres.out.final_url))
BaseQuery ==
    parse_qs(UrlQuery(BaseUrl(preq.link, preq.device.is_mobile, preq.device.os_family)))

OnIos ==
    /\ preq.device.is_mobile /\ preq.device.os_family # Null
    /\ Lower(preq.device.os_family) \in IosFamilies

OnAndroid ==
    /\ preq.device.is_mobile /\ preq.device.os_family # Null
    /\ Lower(preq.device.os_family) \in AndroidFamilies

\* the deep link of this click: the link's, with the click identifier
DeepLinkOf(deeplink) ==
    deeplink \o <<IF \E i \in 1..Len(deeplink) : deeplink[i] = "?" THEN "&" ELSE "?">>
             \o INF_CLICK_ID \o <<"=">> \o preq.click_id

\* C15: the inf_click_id parameter of the final URL is the click identifier of
\* this click, and an appended deep-link parameter carries the deep link
\* computed for this click, whatever the destination's own query string and
\* param_overrides define.
C15_LiteralAppendsWin ==
    HasResult =>
        /\ HasKey(FinalQuery, INF_CLICK_ID)
        /\ Item(FinalQuery, INF_CLICK_ID) = <<preq.click_id>>
        /\ OnIos /\ Truthy(preq.link.ios_deeplink) /\ Truthy(preq.link.ios_fallback_url)
               => /\ HasKey(FinalQuery, IOS_DEEPLINK)
                  /\ Item(FinalQuery, IOS_DEEPLINK) = <<DeepLinkOf(preq.link.ios_deeplink)>>
        /\ OnAndroid /\ Truthy(preq.link.android_deeplink)
                     /\ Truthy(preq.link.android_fallback_url)
               => /\ HasKey(FinalQuery, ANDROID_DEEPLINK)
                  /\ Item(FinalQuery, ANDROID_DEEPLINK)
                         = <<DeepLinkOf(preq.link.android_deeplink)>>

\* the same, where neither the URL the final URL is built on nor
\* param_overrides names a literal append
C15_WithoutCollision ==
    HasResult /\ Keys(BaseQuery) \cap {INF_CLICK_ID, IOS_DEEPLINK, ANDROID_DEEPLINK} = {}
              /\ Keys(Overrides) \cap {INF_CLICK_ID, IOS_DEEPLINK, ANDROID_DEEPLINK} = {}
        => C15_LiteralAppendsWin

\* the keys the final URL has and the URL it is built on has not
AddedTo(base, final) == Keys(final) \ Keys(base)
Added == AddedTo(BaseQuery, FinalQuery)

\* the added keys are allowed ones, and none of them is a computed key that
\* param_overrides has not
Minimal(added, overrides, computed) ==
    /\ added \subseteq
           {INF_CLICK_ID, IOS_DEEPLINK, ANDROID_DEEPLINK}
               \cup (PLATFORM_PASSTHROUGH_PARAMS \cap DOMAIN preq.query_params)
               \cup overrides
    /\ \A k \in added : k \in computed => k \in overrides

\* every parameter of the base URL is a parameter of the final URL, with the
\* same values
Kept(base, final) ==
    \A i \in 1..Len(base) : HasKey(final, base[i].k) /\ Item(final, base[i].k) = base[i].v

\* the keys rules 1 and 4 compute
ComputedKeys ==
    DOMAIN Rule4(Rule1(preq.context.source_platform, preq.link.destination_url,
                       preq.context.referrer, preq.context.request_headers),
                 TRUE, preq.click_id, preq.context.source_platform,
                 preq.link.creator_handle, preq.link.campaign_slug)

\* C16: the keys added to the URL are among inf_click_id, the passthrough keys
\* of the request, the keys of param_overrides and the two deep-link keys; no
\* key of rules 1 and 4 is added unless param_overrides has it; every
\* parameter of the base URL is kept with its values.
C16_MinimalUrlSet ==
    HasResult =>
        /\ Minimal(Added, Keys(Overrides), ComputedKeys)
        /\ Kept(BaseQuery, FinalQuery)

\* a link with app fields and overrides, a request with platform parameters,
\* a base URL with a query of its own: keys are added, and the query is kept
C16_Witness ==
    /\ HasResult
    /\ has_app_destination(preq.link)
    /\ pres.platform_params # <<>>
    /\ Overrides # <<>>
    /\ BaseQuery # <<>>
    /\ Cardinality(Added) >= 3
    /\ K_UTM_SOURCE \in DOMAIN pres.out.params /\ ~HasKey(FinalQuery, K_UTM_MEDIUM)


\* the keys of the mobile-attribution block
MobileAttributionKeys ==
    { <<"p", "i", "d">>,
      <<"c">>,
      <<"a", "f", "_", "s", "u", "b", "1">>,
      <<"a", "f", "_", "s", "u", "b", "2">>,
      <<"a", "f", "_", "s", "u", "b", "3">>,
      <<"~", "c", "h", "a", "n", "n", "e", "l">>,
      <<"~", "c", "a", "m", "p", "a", "i", "g", "n">>,
      <<"~", "f", "e", "a", "t", "u", "r", "e">>,
      <<"~", "t", "a", "g", "s">>,
      <<"a", "d", "j", "_", "t", "r", "a", "c", "k", "e", "r">>,
      <<"a", "d", "j", "_", "c", "a", "m", "p", "a", "i", "g", "n">>,
      <<"a", "d", "j", "_", "c", "r", "e", "a", "t", "i", "v", "e">>,
      <<"k", "o", "_", "c", "l", "i", "c", "k", "_", "i", "d">>,
      <<"s", "i", "n", "g", "u", "l", "a", "r", "_", "c", "l", "i", "c", "k", "_", "i", "d">> }

\* at least one app field of the link is not null
HasAppField(link) ==
    \/ link.ios_deeplink # Null \/ link.ios_fallback_url # Null
    \/ link.android_deeplink # Null \/ link.android_fallback_url # Null
    \/ link.universal_link # Null

\* the keys of the block in the persisted set
BlockKeys(params) == MobileAttributionKeys \cap DOMAIN params

\* the block is in the persisted set; without it, a key of the block is
\* persisted only when param_overrides has it
BlockIff(present, params, overrides) ==
    /\ present <=> MobileAttributionKeys \subseteq DOMAIN params
    /\ ~present => BlockKeys(params) \subseteq overrides

\* C21: the mobile-attribution block is persisted if and only if one of the
\* five app fields of the link is non-null, whatever is_mobile and os_family
\* are; on a request that is not mobile or whose OS family is neither iOS nor
\* Android the final URL is still built on destination_url.
C21_Rule4DependsOnLink ==
    HasResult =>
        /\ BlockIff(HasAppField(preq.link), pres.out.params, Keys(Overrides))
        /\ HasAppField(preq.link) /\ ~OnIos /\ ~OnAndroid
               => SameBase(pres.out.final_url, preq.link.destination_url)

\* the block follows the link alone: it is persisted if and only if one of
\* the five app fields is a non-empty string
C21_BlockByLink ==
    HasResult =>
        BlockIff(has_app_destination(preq.link), pres.out.params, Keys(Overrides))

\* the final URL carries the deep-link parameter key with the deep link of
\* this click
Carries(final, key, deeplink) ==
    HasKey(final, key) /\ Item(final, key) = <<DeepLinkOf(deeplink)>>

\* C22: on a mobile iOS request for a link with ios_deeplink set the final URL
\* carries ios_deeplink = the deep link, then '&' if it holds a '?' and '?'
\* otherwise, then inf_click_id=<click identifier>; likewise android_deeplink
\* on a mobile Android request; for any other OS family no deep-link
\* parameter is added.
C22_DeepLinkParameter ==
    HasResult =>
        /\ OnIos /\ Truthy(preq.link.ios_deeplink)
               => Carries(FinalQuery, IOS_DEEPLINK, preq.link.ios_deeplink)
        /\ OnAndroid /\ Truthy(preq.link.android_deeplink)
               => Carries(FinalQuery, ANDROID_DEEPLINK, preq.link.android_deeplink)
        /\ ~OnIos /\ ~OnAndroid
               => AddedTo(BaseQuery, FinalQuery) \cap {IOS_DEEPLINK, ANDROID_DEEPLINK} = {}

\* the same where the fallback URL of the OS family is set as well and has no
\* deep-link parameter of its own, and off the OS families that merely
\* contain "ios"; without the fallback URL the parameter is not added
C22_WithFallback ==
    HasResult /\ preq.device.os_family # <<"K", "a", "i", "O", "S">> =>
        /\ OnIos /\ Truthy(preq.link.ios_deeplink)
               => IF Truthy(preq.link.ios_fallback_url)
                  THEN HasKey(BaseQuery, IOS_DEEPLINK)
                          \/ Carries(FinalQuery, IOS_DEEPLINK, preq.link.ios_deeplink)
                  ELSE IOS_DEEPLINK \notin AddedTo(BaseQuery, FinalQuery)
        /\ OnAndroid /\ Truthy(preq.link.android_deeplink)
               => IF Truthy(preq.link.android_fallback_url)
                  THEN HasKey(BaseQuery, ANDROID_DEEPLINK)
                          \/ Carries(FinalQuery, ANDROID_DEEPLINK, preq.link.android_deeplink)
                  ELSE ANDROID_DEEPLINK \notin AddedTo(BaseQuery, FinalQuery)
        /\ ~OnIos /\ ~OnAndroid
               => AddedTo(BaseQuery, FinalQuery) \cap {IOS_DEEPLINK, ANDROID_DEEPLINK} = {}

-----------------------------------------------------------------------------
(* Calls of inject_params_to_url *)

MaxInjections == 2      \* applications of the same injection in a row

\* URLs: repeated keys, a blank value, a key without "=", escapes, a fragment,
\* no query, an upper-case scheme, a ";", an empty host, no scheme
InjectUrls ==
    { <<"h", "t", "t", "p", "s", ":", "/", "/", "s", ".", "e", "x", "/", "p", "?",
        "a", "=", "1", "&", "a", "=", "2", "&", "b", "=">>,
      <<"h", "t", "t", "p", "s", ":", "/", "/", "s", ".", "e", "x", "/", "p", "?",
        "a", "=", "1", "+", "2", "&", "z", "=", "%", "C", "3", "%", "A", "9",
        "#", "t", "o", "p">>,
      <<"h", "t", "t", "p", "s", ":", "/", "/", "s", ".", "e", "x", "/", "p", "?",
        "a", "&", "b", "=", "1">>,
      <<"h", "t", "t", "p", "s", ":", "/", "/", "s", ".", "e", "x", "/", "p">>,
      <<"h", "t", "t", "p", "s", ":", "/", "/", "s", ".", "e", "x", "/", "p", "?",
        "u", "t", "m", "_", "s", "o", "u", "r", "c", "e", "=", "o", "w", "n",
        "&", "i", "n", "f", "_", "c", "l", "i", "c", "k", "_", "i", "d", "=",
        "o", "l", "d">>,
      <<"H", "T", "T", "P", ":", "/", "/", "S", ".", "e", "x", "/", "p", "?", "a",
        "=", "%", "z", "z">>,
      <<"h", "t", "t", "p", "s", ":", "/", "/", "s", ".", "e", "x", "/", "p", "?",
        "a", "=", "1", ";", "b", "=", "2">>,
      <<"h", "t", "t", "p", ":", "/", "/", "/", "/", "x", "?", "a", "=", "1">>,
      <<"/", "p", "?", "a", "=", "1", "&", "&", "c", "=", "%", "2", "6">> }

\* params, in insertion order; a value is a string or None
InjectParams ==
    { <<>>,
      <<[k |-> <<"a">>, v |-> <<"9">>], [k |-> <<"c">>, v |-> <<"x", " ", "y">>]>>,
      <<[k |-> <<"n">>, v |-> <<"U+00E9", " ", "b">>], [k |-> <<"a">>,
        v |-> <<"5">>]>>,
      <<[k |-> <<"u", "t", "m", "_", "s", "o", "u", "r", "c", "e">>, v |-> <<"i",
        "g">>], [k |-> <<"i", "n", "f", "_", "c", "l", "i", "c", "k", "_",
        "i", "d">>, v |-> <<"c", "1", ".", "9", ".", "a", "b">>],
        [k |-> <<"b">>, v |-> Null]>>,
      <<[k |-> <<"c">>, v |-> <<>>]>>,
      <<[k |-> <<"a", " ", "b">>, v |-> <<"1", "&", "2", "=", "3">>]>> }

InjectRequests == [url : InjectUrls, params : InjectParams, policy : {ONLY_IF_MISSING, ALWAYS_OVERRIDE}]

InitInject ==
    /\ preq \in InjectRequests
    /\ pres = <<>>
    /\ clock = StartClock
    /\ minted = <<>>
    /\ last = NoCall
    /\ memory = <<>>
    /\ events = <<>>
    /\ response = NoResponse
    /\ sreq = "idle"
    /\ verdict = "idle"
    /\ creq = "idle"
    /\ intel = "idle"
    /\ dedupe = <<>>
    /\ pc = "idle"

\* inject_params_to_url on the URL, or on the URL of the call before
Inject ==
    /\ Len(pres) < MaxInjections
    /\ pres' = Append(pres, inject_params_to_url(IF pres = <<>> THEN preq.url ELSE pres[Len(pres)],
                                                 preq.params, preq.policy))
    /\ UNCHANGED <<preq, codecVars, eventVars, scoreVars, classVars, flowVars>>

NextInject == Inject

SpecInject == InitInject /\ [][NextInject]_vars

\* every key of params is in the query with the value of params, as a string
Overridden(final, params, keys) ==
    \A k \in keys : HasKey(final, k) /\ Item(final, k) = <<Fmt(Item(params, k))>>

\* the two policies on the query before and after
Policies(before, final, params, policy) ==
    /\ policy = ONLY_IF_MISSING =>
           /\ Kept(before, final)
           /\ Overridden(final, params, Keys(params) \ Keys(before))
    /\ policy = ALWAYS_OVERRIDE => Overridden(final, params, Keys(params))
    /\ \A i \in 1..Len(before) :
           before[i].k \notin Keys(params)
               => HasKey(final, before[i].k) /\ Item(final, before[i].k) = before[i].v
    /\ Keys(final) = Keys(before) \cup Keys(params)

\* C23: with only_if_missing every key of the URL keeps its values and only
\* the absent keys of params are added; with always_override every key of
\* params has the value of params; the keys of the URL that params has not
\* are unchanged; the same injection applied twice gives the URL of the
\* first application.
C23_InjectionPolicies ==
    pres # <<>> =>
        /\ Policies(parse_qs(UrlQuery(preq.url)), parse_qs(UrlQuery(pres[1])),
                    preq.params, preq.policy)
        /\ \A i \in 2..Len(pres) : pres[i] = pres[1]

\* an only_if_missing injection, applied twice, of a key the URL has with two
\* values and of a key it has not
C23_Witness ==
    /\ Len(pres) = MaxInjections
    /\ preq.policy = ONLY_IF_MISSING
    /\ \E k \in Keys(preq.params) :
           /\ HasKey(parse_qs(UrlQuery(preq.url)), k)
           /\ Len(Item(parse_qs(UrlQuery(preq.url)), k)) = 2
    /\ Keys(preq.params) \ Keys(parse_qs(UrlQuery(preq.url))) # {}

-----------------------------------------------------------------------------
(* app/api/shopify.py: the orders-create webhook *)

MaxDeliveries == 3      \* webhook deliveries in flight
MaxOrders     == 2      \* Shopify order ids

Deliveries      == 1..MaxDeliveries
\* order.get("id"): 0 stands for a missing id
ShopifyOrderIds == 0..MaxOrders

\* f"shopify:{shopify_order_id}"
ShopifyOrderId(id) == <<"s", "h", "o", "p", "i", "f", "y", ":">> \o FormatInt(id)

\* the inf_click_id note attribute of an order: a minted click id, a string
\* that is no click id, and none
NoteClickIds ==
    {Str(mint_click_id(_uuid7(1), StartClock)), <<"a", ":", "b">>, Null}

\* a ConversionEvent row
ConversionEvent(click_id, order_id) ==
    [click_id |-> click_id, event_type |-> "purchase", order_id |-> order_id]

Waiting == [at |-> "waiting"]

\* a handler that has returned
Returned(status, body) == [at |-> "returned", status |-> status, body |-> body]

\* a handler suspended at an await, with its local variables
Suspended(at, click_id_raw, order_id) ==
    [at |-> at, click_id_raw |-> click_id_raw, order_id |-> order_id]

\* webhook_orders_create up to the idempotency SELECT
Enter(known_store, hmac_ok, id, click_id_raw, now) ==
    IF ~known_store THEN Returned(200, <<"ignored", "unknown_store">>)
    ELSE IF ~hmac_ok THEN Returned(401, <<"Invalid HMAC signature.">>)
    ELSE IF id = 0 THEN Returned(200, <<"ignored", "missing_order_id">>)
    ELSE IF ~Truthy(click_id_raw) THEN Returned(200, <<"ignored", "no_click_id">>)
    ELSE IF verify_click_id(click_id_raw, now).kind = "raise"
    THEN Returned(500, <<"Internal Server Error">>)
    ELSE IF verify_click_id(click_id_raw, now) = None
    THEN Returned(200, <<"ignored", "invalid_click_id">>)
    ELSE Suspended("select", click_id_raw, ShopifyOrderId(id))

\* the rows the SELECT finds
Existing(order_id) == {i \in 1..Len(events) : events[i].order_id = order_id}

\* after the SELECT: scalar_one_or_none() raises when it finds two rows
Selected(local, found) ==
    IF Cardinality(found) > 1 THEN Returned(500, <<"Internal Server Error">>)
    ELSE IF found # {} THEN Returned(200, <<"duplicate", local.order_id>>)
    ELSE Suspended("commit", local.click_id_raw, local.order_id)

InitShopify ==
    /\ pc = [d \in Deliveries |-> Waiting]
    /\ events = <<>>
    /\ clock = StartClock
    /\ minted = <<>>
    /\ last = NoCall
    /\ memory = <<>>
    /\ response = NoResponse
    /\ sreq = "idle"
    /\ verdict = "idle"
    /\ creq = "idle"
    /\ intel = "idle"
    /\ preq = "idle"
    /\ pres = "idle"
    /\ dedupe = <<>>

\* a delivery arrives; the handler runs to its first await on the orders
Deliver(d) ==
    /\ pc[d] = Waiting
    /\ \E known_store, hmac_ok \in BOOLEAN, id \in ShopifyOrderIds, raw \in NoteClickIds :
           pc' = [pc EXCEPT ![d] = Enter(known_store, hmac_ok, id, raw, clock)]
    /\ UNCHANGED <<codecVars, eventVars, scoreVars, classVars, paramVars, dedupe>>

\* await db.execute(existing_stmt) returns
Select(d) ==
    /\ pc[d].at = "select"
    /\ pc' = [pc EXCEPT ![d] = Selected(pc[d], Existing(pc[d].order_id))]
    /\ UNCHANGED <<codecVars, eventVars, scoreVars, classVars, paramVars, dedupe>>

\* db.add(event); await db.commit() returns
Commit(d) ==
    /\ pc[d].at = "commit"
    /\ events' = Append(events, ConversionEvent(pc[d].click_id_raw, pc[d].order_id))
    /\ pc' = [pc EXCEPT ![d] = Returned(200, <<"ok", pc[d].order_id>>)]
    /\ UNCHANGED <<codecVars, memory, response, scoreVars, classVars, paramVars, dedupe>>

NextShopify ==
    \/ \E d \in Deliveries : Deliver(d)
    \/ \E d \in Deliveries : Select(d)
    \/ \E d \in Deliveries : Commit(d)

SpecShopify == InitShopify /\ [][NextShopify]_vars

\* C17: whatever the interleaving of the deliveries, at most one
\* ConversionEvent is persisted for a Shopify order id.
C17_OneConversionPerOrder ==
    \A id \in ShopifyOrderIds : Cardinality(Existing(ShopifyOrderId(id))) <= 1

-----------------------------------------------------------------------------
(* app/api/redirect.py: the click redirect *)

MaxClicks        == 2   \* requests handled
RedirectStepSecs == 2   \* seconds between two readings of the clock
RedirectHorizon  == 4   \* seconds the clock runs

IP_LIMIT      == 30
LINK_LIMIT    == 10
MINUTE        == 60
DEDUPE_WINDOW == 3
DEDUPE_MAX    == 10000
FLAG_THRESHOLD == 500   \* settings.bot_risk_flag_threshold, in thousandths

BASE_URL == <<"h", "t", "t", "p", "s", ":", "/", "/", "s", "t", "a", "c", "k", "f", "l", "u", "e", "n", "c", "e", ".", "c", "o", "m">>

\* the active links of the database
ActiveLinks ==
    {[creator_handle |-> <<"a", "n", "a">>, campaign_slug |-> <<"f", "a", "l", "l">>,
      link |-> Link(<<"h", "t", "t", "p", "s", ":", "/", "/", "s", ".", "e", "x", "/", "s", "u", "m", "m", "e", "r", "/", "s", "a", "l", "e", "?", "i", "d", "=", "5", "&", "r", "e", "f", "=", "i", "g">>, Null, Null, Null, Null, Null, <<>>)]}

\* request.headers.get(name)
Header(request, name) ==
    IF name \in DOMAIN request.headers THEN request.headers[name] ELSE Null

USER_AGENT == <<"u", "s", "e", "r", "-", "a", "g", "e", "n", "t">>
REFERER    == <<"r", "e", "f", "e", "r", "e", "r">>

\* (mutant) the last-seen time is left alone on a duplicate
check_dedupe_first_seen(store, key, now, capacity) ==
    [hit   |-> /\ key \in DOMAIN store
               /\ store[key] # 0
               /\ now - store[key] < DEDUPE_WINDOW * TicksPerSec,
     store |-> IF /\ key \in DOMAIN store
                  /\ now - store[key] < DEDUPE_WINDOW * TicksPerSec
               THEN store ELSE (key :> now) @@ store]

\* check_dedupe at time now on the store, for the key of (ip, slug, ua): the
\* answer and the store it leaves.  capacity is the number of entries above
\* which the cleanup runs.  The key is the text that is hashed; SHA-256 is
\* taken to have no collisions.
check_dedupe(store, key, now, capacity) ==
    [hit   |-> /\ key \in DOMAIN store
               /\ store[key] # 0
               /\ now - store[key] < DEDUPE_WINDOW * TicksPerSec,
     store |-> IF Cardinality(DOMAIN store \cup {key}) > capacity
               THEN [k \in {x \in DOMAIN store \cup {key} :
                               x = key \/ store[x] >= now - MINUTE * TicksPerSec} |->
                         IF k = key THEN now ELSE store[k]]
               ELSE (key :> now) @@ store]

\* f"{ip}:{slug}:{ua}" of a request
DedupeKey(request) ==
    request.ip \o <<":">> \o request.creator_handle \o <<"/">> \o request.campaign_slug
        \o <<":">> \o (IF Truthy(Header(request, USER_AGENT))
                       THEN Header(request, USER_AGENT) ELSE <<>>)

\* what a handler leaves behind: the stores, the rows, and its response
Outcome(memory_, dedupe_, minted_, events_, response_, verdict_, intel_) ==
    [memory |-> memory_, dedupe |-> dedupe_, minted |-> minted_, events |-> events_,
     response |-> response_, verdict |-> verdict_, intel |-> intel_]

\* raise HTTPException(status_code=status)
HttpError(status) == [status |-> status, location |-> Null, cookies |-> <<>>]

\* RedirectResponse(url, 302) with its cookies
Redirect(url, cookies) == [status |-> 302, location |-> url, cookies |-> cookies]

\* the utm_ entries of the injected params
UtmSubset(params) ==
    [k \in {x \in DOMAIN params : Take(x, 4) = <<"u", "t", "m", "_">>} |-> params[k]]

\* the ClickEvent row
ClickEvent(request, click_id, session_id, dest, platform_params, intel_, verdict_, is_dedupe) ==
    [table |-> "click_events", click_id |-> click_id, session_id |-> session_id,
     destination_url_final |-> dest.final_url,
     utm |-> UtmSubset(dest.params), injected_params |-> dest.params,
     platform_click_ids |-> AsDict(platform_params),
     query_params |-> request.query_params,
     referrer_header |-> Header(request, REFERER),
     source_platform |-> intel_.source_platform, source_medium |-> intel_.source_medium,
     source_detail |-> intel_.source_detail,
     user_agent |-> Header(request, USER_AGENT),
     sec_fetch_site |-> Header(request, SEC_FETCH_SITE),
     risk_score |-> verdict_.risk_score, bot_blocked |-> FALSE,
     is_suspected_bot |-> verdict_.risk_score >= FLAG_THRESHOLD \/ is_dedupe,
     bot_reason |-> IF is_dedupe THEN <<"dedupe_3s">>
                    ELSE IF verdict_.risk_score >= FLAG_THRESHOLD THEN verdict_.reason
                    ELSE Null]

\* the ClickEventLog row
ClickEventLog(click_id) ==
    [table |-> "click_event_logs", click_id |-> click_id, event_type |-> "server_received"]

\* steps 10 to 12: the rows, the cookies, the redirect
Persisted(request, s, verdict_, is_dedupe, intel_, click, session_id, platform_params, dest) ==
    Outcome(s.memory, s.dedupe, Append(s.minted, click),
            s.events \o <<ClickEvent(request, Str(click.click), session_id, dest,
                                     platform_params, intel_, verdict_, is_dedupe),
                          ClickEventLog(Str(click.click))>>,
            Redirect(IF Get(request.query_params, <<"n", "o", "c", "o", "l", "l", "e", "c", "t">>) = <<"1">>
                     THEN dest.final_url
                     ELSE BASE_URL \o <<"/", "r", "/">> \o Str(click.click),
                     (INF_CLICK_ID :> Str(click.click))
                         @@ (IF request.session_cookie = Null \/ request.session_cookie = <<>>
                             THEN <<"i", "n", "f", "_", "s", "e", "s", "s", "i", "o", "n", "_", "i", "d">> :> session_id ELSE <<>>)),
            verdict_, intel_)

\* steps 6 to 8: the click id, the session, the destination.  analyze_click
\* has not been given the query parameters, resolve_destination is not given
\* the headers.
Minted(request, now, s, link, verdict_, is_dedupe, intel_, click, platform_params) ==
    Persisted(request, s, verdict_, is_dedupe, intel_, click,
              IF request.session_cookie = Null \/ request.session_cookie = <<>>
              THEN <<"u">> \o FormatInt(Len(s.minted) + 1)
              ELSE request.session_cookie,
              platform_params,
              resolve_destination(link, Str(click.click), intel_.source_platform,
                                  intel_.is_mobile,
                                  IF Truthy(Header(request, USER_AGENT))
                                  THEN request.parsed.os_family
                                  ELSE <<"u", "n", "k", "n", "o", "w", "n">>,
                                  platform_params, Header(request, REFERER), <<>>))

\* steps 3 to 5: the dedupe store is written, the click is analyzed
Deduped(request, now, s, link, verdict_, dd, platform_params) ==
    Minted(request, now, [s EXCEPT !.dedupe = dd.store], link, verdict_, dd.hit,
           analyze_click(Header(request, USER_AGENT), Header(request, REFERER),
                         Header(request, ACCEPT_LANGUAGE), request.headers, <<>>,
                         request.parsed.device),
           [click |-> mint_click_id(_uuid7(Len(s.minted) + 1), now), at |-> now],
           platform_params)

\* the bot verdict looked at after the dedupe check
BotChecked_after_dedupe(request, now, s, link, verdict_, capacity, platform_params) ==
    IF verdict_.should_block
    THEN Outcome(s.memory,
                 check_dedupe(s.dedupe, DedupeKey(request), now, capacity).store,
                 s.minted, s.events, HttpError(404), verdict_, NoIntel)
    ELSE Deduped(request, now, s, link, verdict_,
                 check_dedupe(s.dedupe, DedupeKey(request), now, capacity),
                 platform_params)

\* step 2: the bot verdict decides between 404 and the rest
BotChecked(request, now, s, link, verdict_, capacity, platform_params) ==
    IF verdict_.should_block
    THEN Outcome(s.memory, s.dedupe, s.minted, s.events, HttpError(404), verdict_, NoIntel)
    ELSE Deduped(request, now, s, link, verdict_,
                 check_dedupe(s.dedupe, DedupeKey(request), now, capacity),
                 platform_params)

\* step 1: the link is looked up
LookedUp(request, now, s, found, capacity, platform_params) ==
    IF found = {}
    THEN Outcome(s.memory, s.dedupe, s.minted, s.events, HttpError(404), NoVerdict, NoIntel)
    ELSE BotChecked(request, now, s, (CHOOSE l \in found : TRUE).link,
                    score_request(IF Truthy(Header(request, USER_AGENT))
                                  THEN Header(request, USER_AGENT) ELSE <<>>,
                                  request.headers, 0, FALSE, FALSE),
                    capacity, platform_params)

\* rate_limit_link
LinkLimited(request, now, s, rl, capacity, platform_params) ==
    IF ~rl.allowed
    THEN Outcome(rl.store, s.dedupe, s.minted, s.events, HttpError(429), NoVerdict, NoIntel)
    ELSE LookedUp(request, now, [s EXCEPT !.memory = rl.store],
                  {l \in ActiveLinks : /\ l.creator_handle = request.creator_handle
                                       /\ l.campaign_slug = request.campaign_slug},
                  capacity, platform_params)

\* rate_limit_ip
IpLimited(request, now, s, rl, capacity, platform_params) ==
    IF ~rl.allowed
    THEN Outcome(rl.store, s.dedupe, s.minted, s.events, HttpError(429), NoVerdict, NoIntel)
    ELSE LinkLimited(request, now, s,
                     _sliding_window_check(rl.store,
                         <<"link", request.ip, request.creator_handle, request.campaign_slug>>,
                         LINK_LIMIT, MINUTE, now),
                     capacity, platform_params)

\* redirect_click(request) at time now, on the stores and tables s; capacity
\* is the number of dedupe entries above which the cleanup runs
redirect_click(request, now, s, capacity, platform_params) ==
    IpLimited(request, now, s,
              _sliding_window_check(s.memory, <<"ip", request.ip>>, IP_LIMIT, MINUTE, now),
              capacity, platform_params)

\* the requests: a browser, an in-app browser and a script, each without
\* Referer, with a cross-site Sec-Fetch-Site, and with a Referer; with and
\* without query parameters; a link that does not exist; a returning session
RedirectRequests ==
    { [ip |-> <<"1", ".", "2", ".", "3", ".", "4">>, creator_handle |-> <<"a", "n",
        "a">>, campaign_slug |-> <<"f", "a", "l", "l">>, headers |-> (<<"u",
        "s", "e", "r", "-", "a", "g", "e", "n", "t">> :> <<"M", "o", "z",
        "i", "l", "l", "a", "/", "5", ".", "0">>) @@ (<<"a", "c", "c", "e",
        "p", "t", "-", "l", "a", "n", "g", "u", "a", "g", "e">> :> <<"e",
        "n", "-", "U", "S">>), query_params |-> <<>>,
        session_cookie |-> Null, parsed |-> [device |-> "desktop",
        os_family |-> <<"W", "i", "n", "d", "o", "w", "s">>]],
      [ip |-> <<"1", ".", "2", ".", "3", ".", "4">>, creator_handle |-> <<"a", "n",
        "a">>, campaign_slug |-> <<"f", "a", "l", "l">>, headers |-> (<<"u",
        "s", "e", "r", "-", "a", "g", "e", "n", "t">> :> <<"M", "o", "z",
        "i", "l", "l", "a", "/", "5", ".", "0">>) @@ (<<"a", "c", "c", "e",
        "p", "t", "-", "l", "a", "n", "g", "u", "a", "g", "e">> :> <<"e",
        "n", "-", "U", "S">>) @@ (<<"s", "e", "c", "-", "f", "e", "t", "c",
        "h", "-", "s", "i", "t", "e">> :> <<"C", "r", "o", "s", "s", "-",
        "S", "i", "t", "e">>), query_params |-> <<>>,
        session_cookie |-> Null, parsed |-> [device |-> "desktop",
        os_family |-> <<"W", "i", "n", "d", "o", "w", "s">>]],
      [ip |-> <<"1", ".", "2", ".", "3", ".", "4">>, creator_handle |-> <<"a", "n",
        "a">>, campaign_slug |-> <<"f", "a", "l", "l">>, headers |-> (<<"u",
        "s", "e", "r", "-", "a", "g", "e", "n", "t">> :> <<"M", "o", "z",
        "i", "l", "l", "a", "/", "5", ".", "0">>) @@ (<<"a", "c", "c", "e",
        "p", "t", "-", "l", "a", "n", "g", "u", "a", "g", "e">> :> <<"e",
        "n", "-", "U", "S">>) @@ (<<"r", "e", "f", "e", "r", "e",
        "r">> :> <<"h", "t", "t", "p", "s", ":", "/", "/", "l", ".", "i",
        "n", "s", "t", "a", "g", "r", "a", "m", ".", "c", "o", "m", "/">>),
        query_params |-> <<>>, session_cookie |-> Null,
        parsed |-> [device |-> "desktop", os_family |-> <<"W", "i", "n", "d",
        "o", "w", "s">>]],
      [ip |-> <<"1", ".", "2", ".", "3", ".", "4">>, creator_handle |-> <<"a", "n",
        "a">>, campaign_slug |-> <<"f", "a", "l", "l">>, headers |-> (<<"u",
        "s", "e", "r", "-", "a", "g", "e", "n", "t">> :> <<"M", "o", "z",
        "i", "l", "l", "a", "/", "5", ".", "0">>) @@ (<<"a", "c", "c", "e",
        "p", "t", "-", "l", "a", "n", "g", "u", "a", "g", "e">> :> <<"e",
        "n", "-", "U", "S">>), query_params |-> (<<"f", "b", "c", "l", "i",
        "d">> :> <<"1">>), session_cookie |-> Null,
        parsed |-> [device |-> "desktop", os_family |-> <<"W", "i", "n", "d",
        "o", "w", "s">>]],
      [ip |-> <<"1", ".", "2", ".", "3", ".", "4">>, creator_handle |-> <<"a", "n",
        "a">>, campaign_slug |-> <<"f", "a", "l", "l">>, headers |-> (<<"u",
        "s", "e", "r", "-", "a", "g", "e", "n", "t">> :> <<"M", "o", "z",
        "i", "l", "l", "a", "/", "5", ".", "0">>) @@ (<<"a", "c", "c", "e",
        "p", "t", "-", "l", "a", "n", "g", "u", "a", "g", "e">> :> <<"e",
        "n", "-", "U", "S">>) @@ (<<"s", "e", "c", "-", "f", "e", "t", "c",
        "h", "-", "s", "i", "t", "e">> :> <<"c", "r", "o", "s", "s", "-",
        "s", "i", "t", "e">>), query_params |-> (<<"u", "t", "m", "_", "s",
        "o", "u", "r", "c", "e">> :> <<"n", "e", "w", "s", "l", "e", "t",
        "t", "e", "r">>), session_cookie |-> Null,
        parsed |-> [device |-> "desktop", os_family |-> <<"W", "i", "n", "d",
        "o", "w", "s">>]],
      [ip |-> <<"1", ".", "2", ".", "3", ".", "4">>, creator_handle |-> <<"a", "n",
        "a">>, campaign_slug |-> <<"f", "a", "l", "l">>, headers |-> (<<"u",
        "s", "e", "r", "-", "a", "g", "e", "n", "t">> :> <<"M", "o", "z",
        "i", "l", "l", "a", "/", "5", ".", "0">>) @@ (<<"a", "c", "c", "e",
        "p", "t", "-", "l", "a", "n", "g", "u", "a", "g", "e">> :> <<"e",
        "n", "-", "U", "S">>), query_params |-> (<<"n", "o", "c", "o", "l",
        "l", "e", "c", "t">> :> <<"1">>), session_cookie |-> Null,
        parsed |-> [device |-> "desktop", os_family |-> <<"W", "i", "n", "d",
        "o", "w", "s">>]],
      [ip |-> <<"1", ".", "2", ".", "3", ".", "4">>, creator_handle |-> <<"a", "n",
        "a">>, campaign_slug |-> <<"f", "a", "l", "l">>, headers |-> (<<"u",
        "s", "e", "r", "-", "a", "g", "e", "n", "t">> :> <<"M", "o", "z",
        "i", "l", "l", "a", "/", "5", ".", "0", " ", "I", "n", "s", "t", "a",
        "g", "r", "a", "m", " ", "1", ".", "0">>) @@ (<<"a", "c", "c", "e",
        "p", "t", "-", "l", "a", "n", "g", "u", "a", "g", "e">> :> <<"e",
        "n", "-", "U", "S">>) @@ (<<"r", "e", "f", "e", "r", "e",
        "r">> :> <<"h", "t", "t", "p", "s", ":", "/", "/", "l", ".", "i",
        "n", "s", "t", "a", "g", "r", "a", "m", ".", "c", "o", "m", "/">>),
        query_params |-> (<<"f", "b", "c", "l", "i", "d">> :> <<"1">>),
        session_cookie |-> Null, parsed |-> [device |-> "mobile",
        os_family |-> <<"i", "O", "S">>]],
      [ip |-> <<"1", ".", "2", ".", "3", ".", "4">>, creator_handle |-> <<"a", "n",
        "a">>, campaign_slug |-> <<"f", "a", "l", "l">>, headers |-> (<<"u",
        "s", "e", "r", "-", "a", "g", "e", "n", "t">> :> <<"M", "o", "z",
        "i", "l", "l", "a", "/", "5", ".", "0", " ", "I", "n", "s", "t", "a",
        "g", "r", "a", "m", " ", "1", ".", "0">>) @@ (<<"a", "c", "c", "e",
        "p", "t", "-", "l", "a", "n", "g", "u", "a", "g", "e">> :> <<"e",
        "n", "-", "U", "S">>), query_params |-> <<>>,
        session_cookie |-> Null, parsed |-> [device |-> "mobile",
        os_family |-> <<"i", "O", "S">>]],
      [ip |-> <<"1", ".", "2", ".", "3", ".", "4">>, creator_handle |-> <<"a", "n",
        "a">>, campaign_slug |-> <<"f", "a", "l", "l">>, headers |-> (<<"u",
        "s", "e", "r", "-", "a", "g", "e", "n", "t">> :> <<"c", "u", "r",
        "l", "/", "7">>) @@ (<<"a", "c", "c", "e", "p", "t", "-", "l", "a",
        "n", "g", "u", "a", "g", "e">> :> <<"e", "n", "-", "U", "S">>),
        query_params |-> <<>>, session_cookie |-> Null,
        parsed |-> [device |-> "desktop", os_family |-> <<"O", "t", "h", "e",
        "r">>]],
      [ip |-> <<"1", ".", "2", ".", "3", ".", "4">>, creator_handle |-> <<"a", "n",
        "a">>, campaign_slug |-> <<"f", "a", "l", "l">>, headers |-> (<<"u",
        "s", "e", "r", "-", "a", "g", "e", "n", "t">> :> <<"c", "u", "r",
        "l", "/", "7">>) @@ (<<"a", "c", "c", "e", "p", "t", "-", "l", "a",
        "n", "g", "u", "a", "g", "e">> :> <<"e", "n", "-", "U",
        "S">>) @@ (<<"r", "e", "f", "e", "r", "e", "r">> :> <<"h", "t", "t",
        "p", "s", ":", "/", "/", "l", ".", "i", "n", "s", "t", "a", "g", "r",
        "a", "m", ".", "c", "o", "m", "/">>), query_params |-> (<<"f", "b",
        "c", "l", "i", "d">> :> <<"1">>), session_cookie |-> Null,
        parsed |-> [device |-> "desktop", os_family |-> <<"O", "t", "h", "e",
        "r">>]],
      [ip |-> <<"1", ".", "2", ".", "3", ".", "4">>, creator_handle |-> <<"a", "n",
        "a">>, campaign_slug |-> <<"g", "o", "n", "e">>, headers |-> (<<"u",
        "s", "e", "r", "-", "a", "g", "e", "n", "t">> :> <<"M", "o", "z",
        "i", "l", "l", "a", "/", "5", ".", "0">>) @@ (<<"a", "c", "c", "e",
        "p", "t", "-", "l", "a", "n", "g", "u", "a", "g", "e">> :> <<"e",
        "n", "-", "U", "S">>), query_params |-> <<>>,
        session_cookie |-> Null, parsed |-> [device |-> "desktop",
        os_family |-> <<"W", "i", "n", "d", "o", "w", "s">>]],
      [ip |-> <<"1", ".", "2", ".", "3", ".", "4">>, creator_handle |-> <<"a", "n",
        "a">>, campaign_slug |-> <<"f", "a", "l", "l">>, headers |-> (<<"u",
        "s", "e", "r", "-", "a", "g", "e", "n", "t">> :> <<"M", "o", "z",
        "i", "l", "l", "a", "/", "5", ".", "0">>) @@ (<<"a", "c", "c", "e",
        "p", "t", "-", "l", "a", "n", "g", "u", "a", "g", "e">> :> <<"e",
        "n", "-", "U", "S">>), query_params |-> <<>>,
        session_cookie |-> <<"s", "0">>, parsed |-> [device |-> "desktop",
        os_family |-> <<"W", "i", "n", "d", "o", "w", "s">>]] }

NoRequest == [handled |-> 0, request |-> "none"]

InitRedirect ==
    /\ pc = NoRequest
    /\ clock = StartClock
    /\ memory = <<>>
    /\ dedupe = <<>>
    /\ minted = <<>>
    /\ events = <<>>
    /\ response = NoResponse
    /\ verdict = NoVerdict
    /\ intel = NoIntel
    /\ last = NoCall
    /\ sreq = "idle"
    /\ creq = "idle"
    /\ preq = "idle"
    /\ pres = "idle"

\* the handler has run
Handled(request, out) ==
    /\ pc' = [handled |-> pc.handled + 1, request |-> request]
    /\ memory' = out.memory
    /\ dedupe' = out.dedupe
    /\ minted' = out.minted
    /\ events' = out.events
    /\ response' = out.response
    /\ verdict' = out.verdict
    /\ intel' = out.intel

\* GET /c/{creator_handle}/{campaign_slug}
Click ==
    /\ pc.handled < MaxClicks
    /\ \E request \in RedirectRequests :
           \E platform_params \in extract_platform_params(request.query_params) :
               Handled(request,
                       redirect_click(request, clock,
                                      [memory |-> memory, dedupe |-> dedupe,
                                       minted |-> minted, events |-> events],
                                      DEDUPE_MAX, platform_params))
    /\ UNCHANGED <<clock, last, sreq, creq, paramVars>>

\* time passes
TickRedirect ==
    /\ clock + RedirectStepSecs * TicksPerSec <= (StartSec + RedirectHorizon) * TicksPerSec
    /\ clock' = clock + RedirectStepSecs * TicksPerSec
    /\ UNCHANGED <<minted, last, eventVars, scoreVars, classVars, paramVars, flowVars>>

NextRedirect == Click \/ TickRedirect

SpecRedirect == InitRedirect /\ [][NextRedirect]_vars

-----------------------------------------------------------------------------
(* Properties of the click redirect *)

\* the bot verdict of a request
VerdictOf(request) ==
    score_request(IF Truthy(Header(request, USER_AGENT))
                  THEN Header(request, USER_AGENT) ELSE <<>>,
                  request.headers, 0, FALSE, FALSE)

\* the request has a link and is within its rate limits: the handler reaches
\* the bot check
Scores(request) ==
    /\ \E l \in ActiveLinks : /\ l.creator_handle = request.creator_handle
                              /\ l.campaign_slug = request.campaign_slug
    /\ response'.status # 429

\* a request with a blocking verdict gets a 404 and leaves no trace
BlockedLeavesNoTrace ==
    pc'.handled = pc.handled + 1 /\ Scores(pc'.request)
                                 /\ VerdictOf(pc'.request).should_block
        => /\ response'.status = 404
           /\ response'.cookies = <<>>
           /\ minted' = minted
           /\ events' = events
           /\ dedupe' = dedupe

ClickEvents == {i \in 1..Len(events) : events[i].table = "click_events"}

\* C18: a request whose verdict has should_block ends with a 404, mints no
\* click identifier, persists no row, leaves the dedupe store alone and sets
\* no cookie; every persisted ClickEvent comes from a request that was not
\* blocked.
C18_BlockedRequest ==
    /\ [][BlockedLeavesNoTrace]_vars
    /\ [](\A i \in ClickEvents :
              /\ ~events[i].bot_blocked
              /\ ~HardBlockedUA(IF Truthy(events[i].user_agent)
                                THEN events[i].user_agent ELSE <<>>))

\* a blocked request, handled after a click that was persisted
C18_Witness ==
    /\ pc.handled = 2
    /\ VerdictOf(pc.request).should_block
    /\ response.status = 404
    /\ ClickEvents # {} /\ dedupe # <<>> /\ minted # <<>>

\* C19: a persisted click without in-app user agent and without Referer whose
\* query string has a platform click id (fbclid) or a utm_source is attributed
\* to the platform the parameter names, not to "direct" or "unknown_external".
C19_QueryStringScanned ==
    \A i \in ClickEvents :
        /\ ~_detect_in_app_browser(events[i].user_agent).found
        /\ ~Truthy(events[i].referrer_header)
        /\ \/ Truthy(Get(events[i].query_params, <<"f", "b", "c", "l", "i", "d">>))
           \/ Truthy(Get(events[i].query_params, K_UTM_SOURCE))
        => events[i].source_platform \notin {DIRECT, UNKNOWN_EXTERNAL}

\* the utm_campaign the documentation gives a request with this Referer and
\* this Sec-Fetch-Site header: a mapping with the key, or without it
ExpectedCampaign(referrer, sec_fetch_site) ==
    IF Truthy(referrer)
    THEN K_UTM_CAMPAIGN :> SubSeq(referrer, 1, IF Len(referrer) > 500 THEN 500
                                               ELSE Len(referrer))
    ELSE IF Truthy(sec_fetch_site) THEN K_UTM_CAMPAIGN :> Lower(sec_fetch_site)
    ELSE <<>>

\* the utm_campaign of a parameter set: a mapping with the key, or without it
CampaignOf(params) ==
    IF K_UTM_CAMPAIGN \in DOMAIN params THEN K_UTM_CAMPAIGN :> params[K_UTM_CAMPAIGN]
    ELSE <<>>

\* C20: the persisted utm_campaign is the Referer cut to 500 characters;
\* without a Referer the lowercased Sec-Fetch-Site header; without either the
\* key is absent.
C20_CampaignPersisted ==
    \A i \in ClickEvents :
        CampaignOf(events[i].injected_params)
            = ExpectedCampaign(events[i].referrer_header, events[i].sec_fetch_site)

\* the same of build_tracking_params, when it is given the headers
C20_GivenTheHeaders ==
    HasResult /\ ~HasKey(Overrides, K_UTM_CAMPAIGN) =>
        CampaignOf(pres.out.params)
            = ExpectedCampaign(preq.context.referrer,
                               IF Truthy(Get(preq.context.request_headers, SEC_FETCH_SITE))
                               THEN Get(preq.context.request_headers, SEC_FETCH_SITE)
                               ELSE Get(preq.context.request_headers,
                                        <<"S", "e", "c", "-", "F", "e", "t", "c", "h", "-", "S", "i", "t", "e">>))


-----------------------------------------------------------------------------
(* Clicks on a small dedupe store *)

MaxDedupeClicks == 3   \* requests handled
MaxDedupeTicks  == 2   \* readings of the clock after the first
DedupeCapacity  == 1   \* entries above which the cleanup runs

\* the time between two clicks: just inside the dedupe window, exactly the
\* window, and longer than the age at which the cleanup drops an entry
DedupeSteps ==
    {DEDUPE_WINDOW * TicksPerSec - 1, DEDUPE_WINDOW * TicksPerSec, MINUTE * TicksPerSec + 1}

\* requests for one link from one address with different user agents, none
\* of them blocked
DedupeRequests ==
    {r \in RedirectRequests :
        /\ r.campaign_slug = <<"f", "a", "l", "l">>
        /\ r.query_params = <<>>
        /\ r.session_cookie = Null
        /\ DOMAIN r.headers = {USER_AGENT, ACCEPT_LANGUAGE}
        /\ ~score_request(Header(r, USER_AGENT), r.headers, 0, FALSE, FALSE).should_block}

InitDedupe ==
    /\ pc = [calls |-> <<>>, ticks |-> 0]
    /\ clock = StartClock
    /\ memory = <<>>
    /\ dedupe = <<>>
    /\ minted = <<>>
    /\ events = <<>>
    /\ response = NoResponse
    /\ verdict = NoVerdict
    /\ intel = NoIntel
    /\ last = NoCall
    /\ sreq = "idle"
    /\ creq = "idle"
    /\ preq = "idle"
    /\ pres = "idle"

\* the handler has run on the small store
HandledDedupe(request, out) ==
    /\ pc' = [pc EXCEPT !.calls = Append(@, [request |-> request, at |-> clock])]
    /\ memory' = out.memory
    /\ dedupe' = out.dedupe
    /\ minted' = out.minted
    /\ events' = out.events
    /\ response' = out.response
    /\ verdict' = out.verdict
    /\ intel' = out.intel

\* GET /c/{creator_handle}/{campaign_slug}
ClickDedupe ==
    /\ Len(pc.calls) < MaxDedupeClicks
    /\ \E request \in DedupeRequests :
           HandledDedupe(request,
                         redirect_click(request, clock,
                                        [memory |-> memory, dedupe |-> dedupe,
                                         minted |-> minted, events |-> events],
                                        DedupeCapacity, <<>>))
    /\ UNCHANGED <<clock, last, sreq, creq, paramVars>>

\* time passes
TickDedupe ==
    /\ pc.ticks < MaxDedupeTicks
    /\ \E step \in DedupeSteps : clock' = clock + step
    /\ pc' = [pc EXCEPT !.ticks = @ + 1]
    /\ UNCHANGED <<minted, last, eventVars, scoreVars, classVars, paramVars, dedupe>>

NextDedupe == ClickDedupe \/ TickDedupe

SpecDedupe == InitDedupe /\ [][NextDedupe]_vars

-----------------------------------------------------------------------------
(* Properties of the dedupe check *)

\* (ip, slug, ua) of the i-th call
CallTriple(i) ==
    <<pc.calls[i].request.ip, pc.calls[i].request.creator_handle,
      pc.calls[i].request.campaign_slug, Header(pc.calls[i].request, USER_AGENT)>>

\* the earlier calls with the triple of the i-th
EarlierSame(i) == {j \in 1..(i - 1) : CallTriple(j) = CallTriple(i)}

\* the triple of the i-th call was last passed less than three seconds before
Duplicate(i) ==
    /\ EarlierSame(i) # {}
    /\ pc.calls[i].at - pc.calls[CHOOSE j \in EarlierSame(i) :
                                     \A k \in EarlierSame(i) : k <= j].at
           < DEDUPE_WINDOW * TicksPerSec

\* the ClickEvent row of the i-th call
RowOf(i) == events[2 * i - 1]

\* C28: after any sequence of clicks, cleanups included, a click is taken for
\* a duplicate exactly when the same (ip, slug, ua) was last passed less than
\* three seconds before, every call refreshing the last-seen time; a
\* duplicate is still persisted and redirected, with is_suspected_bot true
\* and bot_reason 'dedupe_3s'.
C28_DedupeWindow ==
    /\ Len(minted) = Len(pc.calls)
    /\ Len(events) = 2 * Len(pc.calls)
    /\ pc.calls # <<>> => response.status = 302 /\ Truthy(response.location)
    /\ \A i \in 1..Len(pc.calls) :
           /\ RowOf(i).table = "click_events"
           /\ RowOf(i).bot_reason = <<"dedupe_3s">> <=> Duplicate(i)
           /\ Duplicate(i) => RowOf(i).is_suspected_bot /\ ~RowOf(i).bot_blocked
           /\ ~Duplicate(i) =>
                  RowOf(i).is_suspected_bot = (RowOf(i).risk_score >= FLAG_THRESHOLD)

\* a duplicate has been redirected after the cleanup dropped an entry, and a
\* repeated click was not a duplicate
C28_Witness ==
    /\ response.status = 302
    /\ Len(pc.calls) = 3
    /\ Duplicate(3)
    /\ ~RowOf(2).is_suspected_bot
    /\ \E j \in 1..2 : DedupeKey(pc.calls[j].request) \notin DOMAIN dedupe


-----------------------------------------------------------------------------
(* Calls of check_rate_limit *)

MaxRateCalls   == 5   \* calls of check_rate_limit
MaxRateTicks   == 2   \* readings of the clock after the first
RateLimit      == 2   \* the limit of the calls
RateWindowSecs == 2   \* the window of the calls, in seconds

\* the window in ticks of the clock
RateWindow == RateWindowSecs * TicksPerSec

\* the time between two calls: one tick, and one tick less than the window
RateSteps == {1, RateWindow - 1}

\* the keys of rate_limit_ip and of rate_limit_link for one address
RateKeys ==
    {<<"ip", <<"1", ".", "2", ".", "3", ".", "4">>>>,
     <<"link", <<"1", ".", "2", ".", "3", ".", "4">>, <<"a", "n", "a">>, <<"f", "a", "l", "l">>>>}

\* check_rate_limit(key, limit, window) at time now on store: HTTP 429 with
\* its headers when the call is not allowed, otherwise what remains
check_rate_limit(store, key, limit, window, now, rl) ==
    [store |-> rl.store,
     status |-> IF rl.allowed THEN 200 ELSE 429,
     remaining |-> rl.remaining,
     headers |-> IF rl.allowed THEN <<>>
                 ELSE [retry_after |-> FormatInt(window), limit |-> FormatInt(limit),
                       remaining |-> <<"0">>]]

InitRate ==
    /\ memory = <<>>
    /\ events = <<>>
    /\ response = NoResponse
    /\ clock = StartClock
    /\ pc = [ticks |-> 0]
    /\ minted = <<>>
    /\ last = NoCall
    /\ dedupe = <<>>
    /\ sreq = "idle"
    /\ verdict = "idle"
    /\ creq = "idle"
    /\ intel = "idle"
    /\ preq = "idle"
    /\ pres = "idle"

\* the call has returned or raised
RateChecked(key, out) ==
    /\ memory' = out.store
    /\ response' = [status |-> out.status, remaining |-> out.remaining, headers |-> out.headers]
    /\ events' = Append(events, [key |-> key, at |-> clock, allowed |-> out.status # 429])

\* check_rate_limit(key, limit, window)
CheckRateLimit ==
    /\ Len(events) < MaxRateCalls
    /\ \E key \in RateKeys :
           RateChecked(key,
                       check_rate_limit(memory, key, RateLimit, RateWindowSecs, clock,
                                        _sliding_window_check(memory, key, RateLimit,
                                                              RateWindowSecs, clock)))
    /\ UNCHANGED <<clock, minted, last, scoreVars, classVars, paramVars, flowVars>>

\* time passes
TickRate ==
    /\ pc.ticks < MaxRateTicks
    /\ \E step \in RateSteps : clock' = clock + step
    /\ pc' = [ticks |-> pc.ticks + 1]
    /\ UNCHANGED <<minted, last, eventVars, scoreVars, classVars, paramVars, dedupe>>

NextRate == CheckRateLimit \/ TickRate

SpecRate == InitRate /\ [][NextRate]_vars

-----------------------------------------------------------------------------
(* Properties of the sliding window *)

\* the allowed calls on the key before the n-th call, later than lo and not
\* later than hi
AllowedIn(key, n, lo, hi) ==
    {i \in 1..(n - 1) : /\ events[i].key = key
                        /\ events[i].allowed
                        /\ lo < events[i].at
                        /\ events[i].at <= hi}

\* the last call on the key
LastOn(key) ==
    CHOOSE i \in 1..Len(events) :
        events[i].key = key /\ \A j \in (i + 1)..Len(events) : events[j].key # key

\* the allowed calls in the order they were made, as their times
TimesOf(key, lo) ==
    LET Counts(e) == e.key = key /\ e.allowed /\ e.at > lo
        hits == SelectSeq(events, Counts)
    IN  [i \in 1..Len(hits) |-> hits[i].at]

\* a call is rejected with HTTP 429 exactly when limit allowed calls on its
\* key lie later than one window before it; rejected calls are not
\* recorded; a key's outcome depends on the calls on that key only
WindowDecides ==
    /\ \A n \in 1..Len(events) :
           events[n].allowed
               <=> Cardinality(AllowedIn(events[n].key, n, events[n].at - RateWindow,
                                         events[n].at)) < RateLimit
    /\ events # <<>> => /\ (response.status = 429) = ~events[Len(events)].allowed
                        /\ response.status \in {200, 429}
    /\ DOMAIN memory = {events[i].key : i \in 1..Len(events)}
    /\ \A key \in DOMAIN memory :
           memory[key] = TimesOf(key, events[LastOn(key)].at - RateWindow)

\* C27 (as stated): the allowed calls on a key whose times lie in an interval
\* of window_seconds, its two ends included, never exceed limit; a call is
\* rejected exactly when limit allowed calls lie within the preceding window,
\* rejected calls are not recorded, and a key's outcome depends on the calls
\* on that key only.
C27_SlidingWindow ==
    /\ \A key \in RateKeys : \A t \in StartClock..clock :
           Cardinality(AllowedIn(key, Len(events) + 1, t - RateWindow - 1, t)) <= RateLimit
    /\ WindowDecides

\* C27 (amended): the same for every interval of window_seconds that is open
\* at its earlier end.
C27_HalfOpenWindow ==
    /\ \A key \in RateKeys : \A t \in StartClock..clock :
           Cardinality(AllowedIn(key, Len(events) + 1, t - RateWindow, t)) <= RateLimit
    /\ WindowDecides

\* a call was rejected, and after the window has slid the same key is
\* allowed again, while the other key was allowed meanwhile
C27_Witness ==
    \E i, j, k \in 1..Len(events) :
        /\ i < j /\ j < k
        /\ events[i].key = events[k].key /\ events[j].key # events[i].key
        /\ ~events[i].allowed /\ events[j].allowed /\ events[k].allowed
        /\ events[j].at = events[i].at
        /\ response.status = 200

=============================================================================
